---- MODULE Spec2Model ----
(***************************************************************************)
(* The analysis pipeline of LangGraphFinancialAgent                        *)
(* (src/langgraph_financial_agent.py): one run of analyze_stocks, stage by *)
(* stage and, inside the per-symbol stages, one loop iteration at a time.  *)
(*                                                                         *)
(* The external capabilities (fetch_stock_data, llm.invoke,                *)
(* create_price_chart) are the environment: every call either returns or   *)
(* raises, chosen with \E.  The data a fetch returns is kept by what the   *)
(* stages read of it: the shape of analysis_summary, whether the metrics   *)
(* compare with numbers, and the number of news items.                     *)
(*                                                                         *)
(* Specifications:                                                         *)
(*   Spec, FairSpec  one call of analyze_stocks;                           *)
(*   TwoRunsSpec     two calls on one agent, alternating between stages;   *)
(*   ReportSpec      one call of FinancialReportWriter.generate_report;    *)
(*   ScorerSpec      the fundamental scorers on one metrics dict;          *)
(*   TrendSpec       _determine_trend_signal on one set of arguments;      *)
(*   VolumeSpec      _analyze_volume_trend on one volume series;           *)
(*   SummarySpec     _perform_technical_analysis on one price history;     *)
(*   AppSpec         main without --interactive: run_analysis, exit code.  *)
(***************************************************************************)
EXTENDS Integers, Sequences, FiniteSets, TLC

\* ------------------------------------------------------------------ bounds
MaxSymbols == 2

Symbols == {"A", "B"}

\* ------------------------------------------------------- python dictionaries
\* A dict keeps insertion order: a sequence of [k, v] entries with distinct k.
Keys(d) == [i \in 1..Len(d) |-> d[i].k]
KeySet(d) == {d[i].k : i \in 1..Len(d)}
Has(d, key) == key \in KeySet(d)
Get(d, key) == d[CHOOSE i \in 1..Len(d) : d[i].k = key].v
\* d[key] = val: a new key goes last, an existing key keeps its place.
Put(d, key, val) ==
    IF Has(d, key)
    THEN [i \in 1..Len(d) |-> IF d[i].k = key THEN [k |-> key, v |-> val] ELSE d[i]]
    ELSE Append(d, [k |-> key, v |-> val])

\* --------------------------------------------------------- the environment
\* FinancialData, by what the pipeline reads of it.
\*   summary: analysis_summary is the full indicator record ("full"), {} for an
\*            empty price history ("empty"), {'error': ...} ("error"), or not a
\*            dict at all ("none": .get raises);
\*   metrics: the financial metrics compare with numbers ("numeric") or one of
\*            them is a string such as 'Infinity' ("text": pe < 15 raises);
\*   news:    len(data.news): no news, or the NewsLimit items fetch_stock_data
\*            keeps at most (ticker.news[:5]).
NewsLimit == 5
NewsCounts == {0, NewsLimit}
SummaryKinds == {"full", "empty", "error", "none"}
MetricKinds == {"numeric", "text"}
FinancialData == [summary : SummaryKinds, metrics : MetricKinds, news : NewsCounts]

SymbolLists == UNION {[1..n -> Symbols] : n \in 0..MaxSymbols}

\* ------------------------------------------------------------------- texts
SentimentFallbackText == "Neutral - Unable to analyze"
InsightsFallbackText == "Unable to generate insights due to an error."
RecommendationsFallbackText == "Unable to generate recommendations due to an error."
\* response.content of a call made in stage st about symbol s ("*": all symbols)
Response(st, s) == [content |-> "response", stage |-> st, symbol |-> s]
Text(t) == [content |-> t, stage |-> "-", symbol |-> "-"]

Msg(t, n) == [text |-> t, n |-> n]

VARIABLES
    symbols,            \* state["symbols"]
    raw_data,           \* state["raw_data"]
    processed_analysis, \* state["processed_analysis"]: keys are added by the stages
    recommendations,    \* state["recommendations"]
    messages,           \* the messages channel of the graph (reducer operator.add)
    chart_paths,        \* state["chart_paths"]
    error_messages,     \* state["error_messages"]
    stage,              \* the node the graph is at
    idx,                \* position of the running node's for loop
    loc,                \* the running node's local result (raw_data, technical_analysis, ...)
    loc_err,            \* the local error_messages of _collect_financial_data
    calls,              \* log of the calls made to the external capabilities
    trace,              \* the nodes started so far, in order
    run,                \* which call of analyze_stocks is executing (0: the only one)
    parked,             \* the other call's state and position while this one executes
    analysis_data,      \* generate_report: state["analysis_data"]
    report_metadata,    \* generate_report: state["report_metadata"]
    report_sections,    \* generate_report: state["report_sections"]
    final_report,       \* generate_report: state["final_report"]
    report_messages,    \* generate_report: state["messages"]
    writer_step,        \* generate_report: the step that runs next
    report_calls,       \* log of the llm.invoke calls of the report writer
    arg,                \* the arguments a function is called with
    result,             \* <<>> before the call, <<value>> after it returned
    results,            \* run_analysis: the results dict
    app_step            \* main: the step of main and run_analysis that runs next

\* The state of one call of analyze_stocks.
pipeline == <<symbols, raw_data, processed_analysis, recommendations, messages,
              chart_paths, error_messages, stage, idx, loc, loc_err, calls, trace>>
\* The state of one call of generate_report.
report == <<analysis_data, report_metadata, report_sections, final_report,
            report_messages, writer_step, report_calls>>
\* The state of one call of run_analysis.
app == <<results, app_step>>
\* What no step of the pipeline touches.
others == <<run, parked, report, arg, result, app>>

vars == <<pipeline, run, parked, report, arg, result, app>>

Call(cap, st, s, ok) == [cap |-> cap, stage |-> st, symbol |-> s, ok |-> ok]

\* ------------------------------------------------------------ the workflow
\* _create_workflow: set_entry_point and the add_edge calls.
EntryPoint == "data_collection"
Edges == {
    <<"data_collection", "technical_analysis">>,
    <<"technical_analysis", "fundamental_analysis">>,
    <<"fundamental_analysis", "market_sentiment">>,
    <<"market_sentiment", "generate_insights">>,
    <<"generate_insights", "create_visualizations">>,
    <<"create_visualizations", "final_recommendations">>,
    <<"final_recommendations", "Done">> }

\* The edges drawn by LangGraphVisualizer.visualize_financial_workflow
\* (src/graph_visualizer.py).
FinancialWorkflowEdges ==
    <<<<"START", "Data Collection">>,
      <<"Data Collection", "Technical Analysis">>,
      <<"Data Collection", "Fundamental Analysis">>,
      <<"Data Collection", "Market Sentiment">>,
      <<"Technical Analysis", "Generate Insights">>,
      <<"Fundamental Analysis", "Generate Insights">>,
      <<"Market Sentiment", "Generate Insights">>,
      <<"Generate Insights", "Create Visualizations">>,
      <<"Generate Insights", "Final Recommendations">>,
      <<"Create Visualizations", "END">>,
      <<"Final Recommendations", "END">>>>

\* Faulty variant: the edge out of market_sentiment bypasses generate_insights.
NextStageSkipsInsights(st) ==
    IF st = "market_sentiment" THEN "create_visualizations"
    ELSE CHOOSE t \in {e[2] : e \in Edges} : <<st, t>> \in Edges

NextStage(st) == CHOOSE t \in {e[2] : e \in Edges} : <<st, t>> \in Edges

\* The graph after a node returned or raised: an exception that leaves a node
\* leaves graph.invoke and analyze_stocks.
Goto(st, raised) == IF raised THEN "Raised" ELSE NextStage(st)

\* messages: Annotated[List, operator.add].  The node returns the whole state,
\* so the channel becomes (channel value) + (returned list).  The graph hands
\* a node the channel's own list: a node that appended to state["messages"]
\* in place has changed the channel value too, and returns that same list.
Reduce(channel, returned, inplace) ==
    (IF inplace THEN returned ELSE channel) \o returned

\* No call of analyze_stocks has been made.
PipelineIdle ==
    /\ symbols = <<>>
    /\ raw_data = <<>>
    /\ processed_analysis = <<>>
    /\ recommendations = <<>>
    /\ messages = <<>>
    /\ chart_paths = <<>>
    /\ error_messages = <<>>
    /\ stage = "START"
    /\ idx = 1
    /\ loc = <<>>
    /\ loc_err = <<>>
    /\ calls = <<>>
    /\ trace = <<>>

\* The state and position of the executing call of analyze_stocks, as a value.
Context ==
    [symbols |-> symbols, raw_data |-> raw_data, processed_analysis |-> processed_analysis,
     recommendations |-> recommendations, messages |-> messages,
     chart_paths |-> chart_paths, error_messages |-> error_messages, stage |-> stage,
     idx |-> idx, loc |-> loc, loc_err |-> loc_err, calls |-> calls, trace |-> trace]

\* A call of analyze_stocks that has not started.
IdleContext ==
    [symbols |-> <<>>, raw_data |-> <<>>, processed_analysis |-> <<>>,
     recommendations |-> <<>>, messages |-> <<>>, chart_paths |-> <<>>,
     error_messages |-> <<>>, stage |-> "START", idx |-> 1, loc |-> <<>>,
     loc_err |-> <<>>, calls |-> <<>>, trace |-> <<>>]

\* No call of generate_report has been made.
ReportIdle ==
    /\ analysis_data = <<>>
    /\ report_metadata = <<>>
    /\ report_sections = <<>>
    /\ final_report = <<>>
    /\ report_messages = <<>>
    /\ writer_step = "idle"
    /\ report_calls = <<>>

\* No function is being called on its own.
FunctionIdle == arg = <<>> /\ result = <<>>

\* main has not been called.
AppIdle == results = <<>> /\ app_step = "idle"

\* One call of analyze_stocks on a new agent.
Init ==
    /\ PipelineIdle
    /\ run = 0
    /\ parked = IdleContext
    /\ ReportIdle
    /\ AppIdle
    /\ FunctionIdle

\* Entering node st: its locals are fresh.
Enter(st) ==
    /\ stage' = st
    /\ idx' = 1
    /\ loc' = <<>>
    /\ loc_err' = <<>>
    /\ trace' = IF st \in {"Done", "Raised"} THEN trace ELSE Append(trace, st)

\* main.py: main returns 1 when args.symbols is empty; run_interactive_mode
\* passes symbols_input.split() on as it is; analyze_stocks itself checks nothing.
Callers == {"main", "run_interactive_mode"}
Accepts(caller, syms) == caller = "main" => syms # <<>>

\* Faulty variant: the messages list is one list of the agent, shared by its runs.
InitialStateSharesMessages(syms) ==
    [symbols |-> syms, raw_data |-> <<>>, processed_analysis |-> <<>>,
     recommendations |-> <<>>, messages |-> parked.messages, chart_paths |-> <<>>,
     error_messages |-> <<>>]

\* initial_state of analyze_stocks: built anew by every call.
InitialState(syms) ==
    [symbols |-> syms, raw_data |-> <<>>, processed_analysis |-> <<>>,
     recommendations |-> <<>>, messages |-> <<>>, chart_paths |-> <<>>,
     error_messages |-> <<>>]

\* analyze_stocks called with one of the lists: the initial state, then graph.invoke.
StartRun(lists) ==
    /\ stage = "START"
    /\ \E caller \in Callers, syms \in lists :
         /\ Accepts(caller, syms)
         /\ LET initial_state == InitialState(syms) IN
            /\ symbols' = initial_state.symbols
            /\ raw_data' = initial_state.raw_data
            /\ processed_analysis' = initial_state.processed_analysis
            /\ recommendations' = initial_state.recommendations
            /\ messages' = initial_state.messages
            /\ chart_paths' = initial_state.chart_paths
            /\ error_messages' = initial_state.error_messages
    /\ Enter(EntryPoint)
    /\ UNCHANGED calls
    /\ UNCHANGED others

analyze_stocks == StartRun(SymbolLists)

\* ---------------------------------------------------------- data_collection
FailedToCollect(s) == [text |-> "Failed to collect data for", symbol |-> s]

\* One iteration of the loop of _collect_financial_data over state["symbols"]:
\* the fetch returned data, or raised.
CollectOk(raw, errs, s, data) == [raw |-> Put(raw, s, data), errs |-> errs]
\* Faulty variant: a failed fetch throws away what was collected before it.
CollectFailedDropsCollected(raw, errs, s) ==
    [raw |-> <<>>, errs |-> Append(errs, FailedToCollect(s))]
CollectFailed(raw, errs, s) == [raw |-> raw, errs |-> Append(errs, FailedToCollect(s))]

Collect(fetched) ==
    /\ stage = "data_collection"
    /\ idx <= Len(symbols)
    /\ LET s == symbols[idx] IN
       \/ \E data \in fetched :
            LET r == CollectOk(loc, loc_err, s, data) IN
            /\ loc' = r.raw
            /\ loc_err' = r.errs
            /\ calls' = Append(calls, Call("fetch", stage, s, TRUE))
       \/ LET r == CollectFailed(loc, loc_err, s) IN
            /\ loc' = r.raw
            /\ loc_err' = r.errs
            /\ calls' = Append(calls, Call("fetch", stage, s, FALSE))
    /\ idx' = idx + 1
    /\ UNCHANGED <<symbols, raw_data, processed_analysis, recommendations, messages,
                   chart_paths, error_messages, stage, trace>>
    /\ UNCHANGED others

collect_step == Collect(FinancialData)

\* After the loop: the three assignments to the state, and the node returns.
collect_end ==
    /\ stage = "data_collection"
    /\ idx > Len(symbols)
    /\ raw_data' = loc
    /\ error_messages' = loc_err
    /\ messages' = Reduce(messages, <<Msg("Collected data for symbols", Len(loc))>>, FALSE)
    /\ Enter(Goto(stage, FALSE))
    /\ UNCHANGED <<symbols, processed_analysis, recommendations, chart_paths, calls>>
    /\ UNCHANGED others

\* ------------------------------------------------------- technical_analysis
\* data.analysis_summary.get raises when the summary is no dict.
TechnicalRaises(data) == data.summary = "none"

\* Faulty variant: the entry depends on what an earlier call left behind.
TechnicalEntryAfterEarlierCall(data) ==
    [trend |-> IF parked.stage = "Done" THEN "neutral"
               ELSE IF data.summary = "full" THEN "trend_signal" ELSE "neutral",
     price_changes |-> IF data.summary = "full" THEN "numbers" ELSE "None"]

\* Faulty variant: missing price changes default to 0, as in the summary itself.
TechnicalEntryDefaultsToZero(data) ==
    [trend |-> IF data.summary = "full" THEN "trend_signal" ELSE "neutral",
     price_changes |-> "numbers"]

\* The entry built from the summary: the keys of {} and of {'error': ...} are
\* all missing, so .get gives None for the price changes and the default trend.
TechnicalEntry(data) ==
    [trend |-> IF data.summary = "full" THEN "trend_signal" ELSE "neutral",
     price_changes |-> IF data.summary = "full" THEN "numbers" ELSE "None"]

\* Faulty variant: the exception ends the loop's work, the map built so far is lost.
TechnicalStepDropsOthers(ta, s, data) ==
    IF TechnicalRaises(data) THEN <<>> ELSE Put(ta, s, TechnicalEntry(data))

\* One iteration of the loop of _perform_technical_analysis: try / except continue.
TechnicalStep(ta, s, data) ==
    IF TechnicalRaises(data) THEN ta ELSE Put(ta, s, TechnicalEntry(data))

SetKey(f, key, val) == [x \in DOMAIN f \cup {key} |-> IF x = key THEN val ELSE f[x]]

technical_step ==
    /\ stage = "technical_analysis"
    /\ idx <= Len(raw_data)
    /\ loc' = TechnicalStep(loc, raw_data[idx].k, raw_data[idx].v)
    /\ idx' = idx + 1
    /\ UNCHANGED <<symbols, raw_data, processed_analysis, recommendations, messages,
                   chart_paths, error_messages, stage, loc_err, calls, trace>>
    /\ UNCHANGED others

technical_end ==
    /\ stage = "technical_analysis"
    /\ idx > Len(raw_data)
    /\ processed_analysis' = SetKey(processed_analysis, "technical", loc)
    /\ messages' = Reduce(messages, Append(messages, Msg("Technical analysis completed", 0)), TRUE)
    /\ Enter(Goto(stage, FALSE))
    /\ UNCHANGED <<symbols, raw_data, recommendations, chart_paths, error_messages, calls>>
    /\ UNCHANGED others

\* ----------------------------------------------------- fundamental_analysis
\* _analyze_valuation and the other scorers compare the metrics with numbers.
FundamentalRaises(data) == data.metrics = "text"

FundamentalEntry(data) == [assessed |-> data.metrics]

\* One iteration of the loop of _perform_fundamental_analysis: try / except continue.
FundamentalStep(fa, s, data) ==
    IF FundamentalRaises(data) THEN fa ELSE Put(fa, s, FundamentalEntry(data))

fundamental_step ==
    /\ stage = "fundamental_analysis"
    /\ idx <= Len(raw_data)
    /\ loc' = FundamentalStep(loc, raw_data[idx].k, raw_data[idx].v)
    /\ idx' = idx + 1
    /\ UNCHANGED <<symbols, raw_data, processed_analysis, recommendations, messages,
                   chart_paths, error_messages, stage, loc_err, calls, trace>>
    /\ UNCHANGED others

fundamental_end ==
    /\ stage = "fundamental_analysis"
    /\ idx > Len(raw_data)
    /\ processed_analysis' = SetKey(processed_analysis, "fundamental", loc)
    /\ messages' = Reduce(messages, Append(messages, Msg("Fundamental analysis completed", 0)), TRUE)
    /\ Enter(Goto(stage, FALSE))
    /\ UNCHANGED <<symbols, raw_data, recommendations, chart_paths, error_messages, calls>>
    /\ UNCHANGED others

\* --------------------------------------------------------- market_sentiment
\* Building the prompt reads processed_analysis['technical'][symbol]
\* ['price_changes']['1d'] and formats it with :.2f: a KeyError when the symbol
\* has no technical entry, a TypeError when the price change is None.
PromptRaises(technical, s) ==
    \/ ~Has(technical, s)
    \/ Get(technical, s).price_changes = "None"

SentimentEntry(s, data) ==
    [sentiment |-> Response("market_sentiment", s), news_count |-> data.news]

\* Faulty variant: the fallback keeps the number of news items.
SentimentFallbackKeepsNews(s, data) ==
    [sentiment |-> Text(SentimentFallbackText), news_count |-> data.news]

\* The except branch of the loop of _analyze_market_sentiment.
SentimentFallback(s, data) ==
    [sentiment |-> Text(SentimentFallbackText), news_count |-> 0]

market_sentiment_step ==
    /\ stage = "market_sentiment"
    /\ idx <= Len(raw_data)
    /\ LET s == raw_data[idx].k
           data == raw_data[idx].v
       IN  IF PromptRaises(processed_analysis.technical, s)
           THEN /\ loc' = Put(loc, s, SentimentFallback(s, data))
                /\ calls' = calls
           ELSE \/ /\ loc' = Put(loc, s, SentimentEntry(s, data))
                   /\ calls' = Append(calls, Call("llm", stage, s, TRUE))
                \/ /\ loc' = Put(loc, s, SentimentFallback(s, data))
                   /\ calls' = Append(calls, Call("llm", stage, s, FALSE))
    /\ idx' = idx + 1
    /\ UNCHANGED <<symbols, raw_data, processed_analysis, recommendations, messages,
                   chart_paths, error_messages, stage, loc_err, trace>>
    /\ UNCHANGED others

market_sentiment_end ==
    /\ stage = "market_sentiment"
    /\ idx > Len(raw_data)
    /\ processed_analysis' = SetKey(processed_analysis, "sentiment", loc)
    /\ messages' = Reduce(messages, Append(messages, Msg("Market sentiment analysis completed", 0)), TRUE)
    /\ Enter(Goto(stage, FALSE))
    /\ UNCHANGED <<symbols, raw_data, recommendations, chart_paths, error_messages, calls>>
    /\ UNCHANGED others

\* -------------------------------------------------------- generate_insights
\* Faulty variant: no except clause, the exception of llm.invoke leaves the node.
InsightsOutcomeUncaught(ok) ==
    IF ok
    THEN [insights |-> Response("generate_insights", "*"),
          appended |-> <<Msg("Insights generated successfully", 0)>>,
          raised |-> FALSE]
    ELSE [insights |-> Text(InsightsFallbackText), appended |-> <<>>, raised |-> TRUE]

\* The try / except around the one llm.invoke of _generate_insights: what is
\* stored as insights, what is appended to messages, whether the node raises.
InsightsOutcome(ok) ==
    IF ok
    THEN [insights |-> Response("generate_insights", "*"),
          appended |-> <<Msg("Insights generated successfully", 0)>>,
          raised |-> FALSE]
    ELSE [insights |-> Text(InsightsFallbackText), appended |-> <<>>, raised |-> FALSE]

generate_insights ==
    /\ stage = "generate_insights"
    /\ \E ok \in BOOLEAN :
         LET out == InsightsOutcome(ok) IN
         /\ calls' = Append(calls, Call("llm", stage, "*", ok))
         /\ processed_analysis' = SetKey(processed_analysis, "insights", out.insights)
         /\ messages' = Reduce(messages, messages \o out.appended, TRUE)
         /\ Enter(Goto(stage, out.raised))
    /\ UNCHANGED <<symbols, raw_data, recommendations, chart_paths, error_messages>>
    /\ UNCHANGED others

\* ---------------------------------------------------- create_visualizations
ChartPath(s) == [chart |-> s]

\* Faulty variant: a failed render empties the list of paths.
ChartStepDropsPaths(paths, s, ok) == IF ok THEN Append(paths, ChartPath(s)) ELSE <<>>

\* One iteration of the loop of _create_visualizations: the path is appended
\* when create_price_chart returns, nothing when it raises.
ChartStep(paths, s, ok) == IF ok THEN Append(paths, ChartPath(s)) ELSE paths

create_visualizations_step ==
    /\ stage = "create_visualizations"
    /\ idx <= Len(raw_data)
    /\ \E ok \in BOOLEAN :
         /\ loc' = ChartStep(loc, raw_data[idx].k, ok)
         /\ calls' = Append(calls, Call("chart", stage, raw_data[idx].k, ok))
    /\ idx' = idx + 1
    /\ UNCHANGED <<symbols, raw_data, processed_analysis, recommendations, messages,
                   chart_paths, error_messages, stage, loc_err, trace>>
    /\ UNCHANGED others

create_visualizations_end ==
    /\ stage = "create_visualizations"
    /\ idx > Len(raw_data)
    /\ chart_paths' = loc
    /\ messages' = Reduce(messages, Append(messages, Msg("Created visualizations", Len(loc))), TRUE)
    /\ Enter(Goto(stage, FALSE))
    /\ UNCHANGED <<symbols, raw_data, processed_analysis, recommendations, error_messages, calls>>
    /\ UNCHANGED others

\* ---------------------------------------------------- final_recommendations
\* Faulty variant: the except clause leaves the recommendations empty.
RecommendationsOutcomeNoFallback(ok) ==
    IF ok
    THEN [recommendations |-> <<Response("final_recommendations", "*")>>,
          appended |-> <<Msg("Investment recommendations generated", 0)>>,
          raised |-> FALSE]
    ELSE [recommendations |-> <<>>, appended |-> <<>>, raised |-> FALSE]

\* The try / except around the one llm.invoke of _generate_recommendations.
RecommendationsOutcome(ok) ==
    IF ok
    THEN [recommendations |-> <<Response("final_recommendations", "*")>>,
          appended |-> <<Msg("Investment recommendations generated", 0)>>,
          raised |-> FALSE]
    ELSE [recommendations |-> <<Text(RecommendationsFallbackText)>>,
          appended |-> <<>>,
          raised |-> FALSE]

final_recommendations ==
    /\ stage = "final_recommendations"
    /\ \E ok \in BOOLEAN :
         LET out == RecommendationsOutcome(ok) IN
         /\ calls' = Append(calls, Call("llm", stage, "*", ok))
         /\ recommendations' = out.recommendations
         /\ messages' = Reduce(messages, messages \o out.appended, TRUE)
         /\ Enter(Goto(stage, out.raised))
    /\ UNCHANGED <<symbols, raw_data, processed_analysis, chart_paths, error_messages>>
    /\ UNCHANGED others

\* ------------------------------------------------------------ specification
Next ==
    \/ analyze_stocks
    \/ collect_step
    \/ collect_end
    \/ technical_step
    \/ technical_end
    \/ fundamental_step
    \/ fundamental_end
    \/ market_sentiment_step
    \/ market_sentiment_end
    \/ generate_insights
    \/ create_visualizations_step
    \/ create_visualizations_end
    \/ final_recommendations

Spec == Init /\ [][Next]_vars

\* graph.invoke runs the nodes synchronously, one after the other, on the
\* caller's thread: a node that can take a step takes it.
FairSpec == Spec /\ WF_vars(Next)

\* ------------------------------------------------- two calls on one agent
\* Two calls of analyze_stocks on the same agent object, e.g. from two threads.
\* Each call has its own initial_state and its own graph.invoke; the agent
\* holds llm, financial_agent and graph only.  The variables of the pipeline
\* are the executing call's, parked is the other call's; the calls alternate
\* between stages, in any order, which includes one call after the other.
TwoRunLists == {<<>>, <<"A">>, <<"B">>}
TwoRunData == {d \in FinancialData : d.news = NewsLimit /\ d.summary \in {"full", "none"}}

analyze_stocks_of_two == StartRun(TwoRunLists)

collect_step_of_two == Collect(TwoRunData)

\* Between two nodes of the graph (and before the first, after the last).
AtStageBoundary == idx = 1 /\ loc = <<>> /\ loc_err = <<>>

\* The other call goes on; a call that has returned takes no more steps.
switch_run ==
    /\ run \in {1, 2}
    /\ AtStageBoundary
    /\ parked.stage \notin {"Done", "Raised"}
    /\ parked' = Context
    /\ symbols' = parked.symbols
    /\ raw_data' = parked.raw_data
    /\ processed_analysis' = parked.processed_analysis
    /\ recommendations' = parked.recommendations
    /\ messages' = parked.messages
    /\ chart_paths' = parked.chart_paths
    /\ error_messages' = parked.error_messages
    /\ stage' = parked.stage
    /\ idx' = parked.idx
    /\ loc' = parked.loc
    /\ loc_err' = parked.loc_err
    /\ calls' = parked.calls
    /\ trace' = parked.trace
    /\ run' = 3 - run
    /\ UNCHANGED <<report, arg, result, app>>

TwoRunsInit ==
    /\ PipelineIdle
    /\ run = 1
    /\ parked = IdleContext
    /\ ReportIdle
    /\ AppIdle
    /\ FunctionIdle

TwoRunsNext ==
    \/ analyze_stocks_of_two
    \/ collect_step_of_two
    \/ collect_end
    \/ technical_step
    \/ technical_end
    \/ fundamental_step
    \/ fundamental_end
    \/ market_sentiment_step
    \/ market_sentiment_end
    \/ generate_insights
    \/ create_visualizations_step
    \/ create_visualizations_end
    \/ final_recommendations
    \/ switch_run

TwoRunsSpec == TwoRunsInit /\ [][TwoRunsNext]_vars

\* ======================================================= the report writer
\* FinancialReportWriter.generate_report (src/financial_report_writer.py): the
\* eight steps run one after the other on one state dict, inside one try.
\*
\* analysis_data, by what generate_report reads of it:
\*   symbols_analyzed:     the list of symbols;
\*   technical_analysis,
\*   fundamental_analysis: whether the map is non-empty (bool(...) of it);
\*   shape: "ok"; "symbols_none": symbols_analyzed is None, len(symbols) raises in
\*          _analyze_input_data; "type_none": analysis_type is None, .title()
\*          raises in _compile_final_report.
AnalysisShapes == {"ok", "symbols_none", "type_none"}
AnalysisInputs ==
    [symbols_analyzed : SymbolLists, technical_analysis : BOOLEAN,
     fundamental_analysis : BOOLEAN, shape : AnalysisShapes]

\* What no step of the report writer touches.
outside_report == <<pipeline, run, parked, arg, result, app>>

\* The section writers, in the order generate_report calls them.  needs: the
\* map of analysis_data without which the writer returns at once ("-": none).
Writers ==
    <<[step |-> "create_executive_summary", title |-> "Executive Summary", order |-> 1,
       section_type |-> "executive_summary", needs |-> "-",
       done |-> "Executive summary completed", error |-> "Error in executive summary",
       skipped |-> "-"],
      [step |-> "write_market_analysis", title |-> "Market Analysis", order |-> 2,
       section_type |-> "market_analysis", needs |-> "-",
       done |-> "Market analysis completed", error |-> "Error in market analysis",
       skipped |-> "-"],
      [step |-> "write_technical_analysis", title |-> "Technical Analysis", order |-> 3,
       section_type |-> "technical_analysis", needs |-> "technical_analysis",
       done |-> "Technical analysis completed", error |-> "Error in technical analysis",
       skipped |-> "Skipped technical analysis - no data available"],
      [step |-> "write_fundamental_analysis", title |-> "Fundamental Analysis", order |-> 4,
       section_type |-> "fundamental_analysis", needs |-> "fundamental_analysis",
       done |-> "Fundamental analysis completed", error |-> "Error in fundamental analysis",
       skipped |-> "Skipped fundamental analysis - no data available"],
      [step |-> "write_risk_assessment", title |-> "Risk Assessment", order |-> 5,
       section_type |-> "risk_assessment", needs |-> "-",
       done |-> "Risk assessment completed", error |-> "Error in risk assessment",
       skipped |-> "-"],
      [step |-> "write_recommendations", title |-> "Investment Recommendations", order |-> 6,
       section_type |-> "recommendations", needs |-> "-",
       done |-> "Investment recommendations completed", error |-> "Error in recommendations",
       skipped |-> "-"]>>

\* The statements of the try block of generate_report, in order.
WriterSteps ==
    <<"analyze_input_data", "create_executive_summary", "write_market_analysis",
      "write_technical_analysis", "write_fundamental_analysis", "write_risk_assessment",
      "write_recommendations", "compile_final_report">>
StepAfter(st) ==
    LET i == CHOOSE j \in 1..Len(WriterSteps) : WriterSteps[j] = st
    IN  IF i = Len(WriterSteps) THEN "returned" ELSE WriterSteps[i + 1]

\* ReportSection(title, content=response.content, order, section_type)
ReportSection(w) ==
    [title |-> w.title, content |-> <<"response", w.section_type>>, order |-> w.order,
     section_type |-> w.section_type]

\* generate_report called with one of the inputs: the initial state.
GenerateReport(inputs) ==
    /\ writer_step = "idle"
    /\ \E data \in inputs : analysis_data' = data
    /\ report_sections' = <<>>
    /\ final_report' = <<>>
    /\ report_metadata' = <<>>
    /\ report_messages' = <<>>
    /\ writer_step' = WriterSteps[1]
    /\ UNCHANGED report_calls
    /\ UNCHANGED outside_report

generate_report == GenerateReport(AnalysisInputs)

\* except Exception in generate_report: the message, and the state is returned.
ReportFailed ==
    /\ report_messages' = Append(report_messages, "Error")
    /\ writer_step' = "returned"

\* _analyze_input_data
analyze_input_data ==
    /\ writer_step = "analyze_input_data"
    /\ IF analysis_data.shape = "symbols_none"
       THEN /\ ReportFailed
            /\ UNCHANGED report_metadata
       ELSE /\ report_metadata' =
                 [symbols |-> analysis_data.symbols_analyzed,
                  symbols_count |-> Len(analysis_data.symbols_analyzed),
                  has_technical_data |-> analysis_data.technical_analysis,
                  has_fundamental_data |-> analysis_data.fundamental_analysis]
            /\ report_messages' = Append(report_messages,
                    "Data analysis completed - report structure determined")
            /\ writer_step' = StepAfter(writer_step)
    /\ UNCHANGED <<analysis_data, report_sections, final_report, report_calls>>
    /\ UNCHANGED outside_report

\* Faulty variant: a failed call leaves a section with no text in the report.
WriterOutcomeKeepsFailed(sections, msgs, w, ok) ==
    IF ok
    THEN [sections |-> Append(sections, ReportSection(w)), messages |-> Append(msgs, w.done)]
    ELSE [sections |-> Append(sections, [ReportSection(w) EXCEPT !.content = <<>>]),
          messages |-> Append(msgs, w.error)]

\* The try / except around the llm.invoke of a section writer: the section and
\* the message are appended when the call returned, the error message when it
\* raised.
WriterOutcome(sections, msgs, w, ok) ==
    IF ok
    THEN [sections |-> Append(sections, ReportSection(w)), messages |-> Append(msgs, w.done)]
    ELSE [sections |-> sections, messages |-> Append(msgs, w.error)]

\* Faulty variant: no try in the writer, the exception of llm.invoke reaches
\* the except of generate_report and the remaining steps are not run.
SectionWriterUncaught(w) ==
    /\ writer_step = w.step
    /\ IF w.needs # "-" /\ ~analysis_data[w.needs]
       THEN /\ report_messages' = Append(report_messages, w.skipped)
            /\ writer_step' = StepAfter(w.step)
            /\ UNCHANGED <<report_sections, report_calls>>
       ELSE \E ok \in BOOLEAN :
              /\ report_calls' = Append(report_calls, [section |-> w.section_type, ok |-> ok])
              /\ IF ok
                 THEN /\ report_sections' = Append(report_sections, ReportSection(w))
                      /\ report_messages' = Append(report_messages, w.done)
                      /\ writer_step' = StepAfter(w.step)
                 ELSE /\ ReportFailed
                      /\ UNCHANGED report_sections
    /\ UNCHANGED <<analysis_data, report_metadata, final_report>>
    /\ UNCHANGED outside_report

\* Faulty variant: no early return, the call is made with the empty map too.
SectionWriterCallsAnyway(w) ==
    /\ writer_step = w.step
    /\ \E ok \in BOOLEAN :
          LET out == WriterOutcome(report_sections, report_messages, w, ok) IN
          /\ report_sections' = out.sections
          /\ report_messages' = out.messages
          /\ report_calls' = Append(report_calls, [section |-> w.section_type, ok |-> ok])
    /\ writer_step' = StepAfter(w.step)
    /\ UNCHANGED <<analysis_data, report_metadata, final_report>>
    /\ UNCHANGED outside_report

\* One section writer: _write_technical_analysis and _write_fundamental_analysis
\* return before the call when their map is empty.
SectionWriter(w) ==
    /\ writer_step = w.step
    /\ IF w.needs # "-" /\ ~analysis_data[w.needs]
       THEN /\ report_messages' = Append(report_messages, w.skipped)
            /\ UNCHANGED <<report_sections, report_calls>>
       ELSE \E ok \in BOOLEAN :
              LET out == WriterOutcome(report_sections, report_messages, w, ok) IN
              /\ report_sections' = out.sections
              /\ report_messages' = out.messages
              /\ report_calls' = Append(report_calls, [section |-> w.section_type, ok |-> ok])
    /\ writer_step' = StepAfter(w.step)
    /\ UNCHANGED <<analysis_data, report_metadata, final_report>>
    /\ UNCHANGED outside_report

create_executive_summary == SectionWriter(Writers[1])

write_market_analysis == SectionWriter(Writers[2])

write_technical_analysis == SectionWriter(Writers[3])

write_fundamental_analysis == SectionWriter(Writers[4])

write_risk_assessment == SectionWriter(Writers[5])

write_recommendations == SectionWriter(Writers[6])

\* sorted(state["report_sections"], key=lambda x: x.order): a stable sort.
RECURSIVE InsertByOrder(_, _)
InsertByOrder(sorted, sec) ==
    IF sorted = <<>> THEN <<sec>>
    ELSE IF sorted[Len(sorted)].order <= sec.order THEN Append(sorted, sec)
    ELSE Append(InsertByOrder(SubSeq(sorted, 1, Len(sorted) - 1), sec), sorted[Len(sorted)])
RECURSIVE SortedByOrder(_)
SortedByOrder(sections) ==
    IF sections = <<>> THEN <<>>
    ELSE InsertByOrder(SortedByOrder(SubSeq(sections, 1, Len(sections) - 1)),
                       sections[Len(sections)])

\* section.title.upper()
Upper(title) ==
    CASE title = "Executive Summary" -> "EXECUTIVE SUMMARY"
      [] title = "Market Analysis" -> "MARKET ANALYSIS"
      [] title = "Technical Analysis" -> "TECHNICAL ANALYSIS"
      [] title = "Fundamental Analysis" -> "FUNDAMENTAL ANALYSIS"
      [] title = "Risk Assessment" -> "RISK ASSESSMENT"
      [] title = "Investment Recommendations" -> "INVESTMENT RECOMMENDATIONS"

\* The parts of the final report: the header, one part per section, the footer.
ReportHeader(metadata) ==
    [part |-> "header",
     text |-> IF Len(metadata.symbols) = 1 THEN metadata.symbols
              ELSE <<"Multi-Stock Analysis">> \o metadata.symbols,
     content |-> <<>>]
SectionPart(sec) == [part |-> "section", text |-> <<Upper(sec.title)>>, content |-> sec.content]
ReportFooter == [part |-> "footer", text |-> <<"IMPORTANT DISCLAIMERS">>, content |-> <<>>]

\* Faulty variant: the sections are emitted with the header and again before the footer.
CompiledEmitsTwice(metadata, sections) ==
    LET sorted == SortedByOrder(sections) IN
    <<ReportHeader(metadata)>> \o [i \in 1..Len(sorted) |-> SectionPart(sorted[i])]
        \o [i \in 1..Len(sorted) |-> SectionPart(sorted[i])] \o <<ReportFooter>>

\* Faulty variant: the sections are sorted with the highest order first.
CompiledDescending(metadata, sections) ==
    LET sorted == SortedByOrder(sections) IN
    <<ReportHeader(metadata)>>
        \o [i \in 1..Len(sorted) |-> SectionPart(sorted[Len(sorted) + 1 - i])]
        \o <<ReportFooter>>

\* '\n'.join(report_content) + footer
Compiled(metadata, sections) ==
    LET sorted == SortedByOrder(sections) IN
    <<ReportHeader(metadata)>> \o [i \in 1..Len(sorted) |-> SectionPart(sorted[i])]
        \o <<ReportFooter>>

\* _compile_final_report
compile_final_report ==
    /\ writer_step = "compile_final_report"
    /\ IF analysis_data.shape = "type_none"
       THEN /\ ReportFailed
            /\ UNCHANGED final_report
       ELSE /\ final_report' = Compiled(report_metadata, report_sections)
            /\ report_messages' = Append(report_messages, "Final report compilation completed")
            /\ writer_step' = StepAfter(writer_step)
    /\ UNCHANGED <<analysis_data, report_metadata, report_sections, report_calls>>
    /\ UNCHANGED outside_report

ReportNext ==
    \/ generate_report
    \/ analyze_input_data
    \/ create_executive_summary
    \/ write_market_analysis
    \/ write_technical_analysis
    \/ write_fundamental_analysis
    \/ write_risk_assessment
    \/ write_recommendations
    \/ compile_final_report

ReportSpec == Init /\ [][ReportNext]_vars

\* The edges drawn by LangGraphVisualizer.visualize_report_workflow
\* (src/graph_visualizer.py).
ReportWorkflowEdges ==
    <<<<"START", "Analyze Data">>,
      <<"Analyze Data", "Executive Summary">>,
      <<"Executive Summary", "Market Analysis">>,
      <<"Market Analysis", "Technical Analysis">>,
      <<"Technical Analysis", "Fundamental Analysis">>,
      <<"Fundamental Analysis", "Risk Assessment">>,
      <<"Risk Assessment", "Recommendations">>,
      <<"Recommendations", "Compile Report">>,
      <<"Compile Report", "END">>>>

\* ==================================================== the fundamental scorer
\* _analyze_valuation, _analyze_profitability, _analyze_growth and
\* _analyze_financial_health (src/langgraph_financial_agent.py) on one metrics
\* dict, as _perform_fundamental_analysis calls them.
\*
\* Numbers are kept in hundredths, so that 0.3 is 30 and 15 is 1500: a
\* comparison with 0.3 is a comparison with 30.  The scorers multiply
\* profit_margin, roe, revenue_growth and earnings_growth by 100 first.
MaxMetrics == 2

\* financial_metrics keeps the order of _extract_financial_metrics.
MetricOrder ==
    <<"pe_ratio", "price_to_book", "debt_to_equity", "roe", "profit_margin",
      "revenue_growth", "earnings_growth", "beta">>
MetricNames == {MetricOrder[i] : i \in 1..Len(MetricOrder)}
\* The values a metric is tried with: below, at and above its thresholds,
\* zero, and a negative value.
MetricValues(k) ==
    CASE k = "pe_ratio" -> {-500, 0, 1000, 1500, 2000, 2500, 3000}
      [] k = "price_to_book" -> {-100, 0, 50, 100, 200, 300, 400}
      [] k = "debt_to_equity" -> {-10, 0, 20, 30, 50, 60, 80}
      [] k = "roe" -> {-5, 0, 10, 12, 15, 20}
      [] k = "profit_margin" -> {-5, 0, 10, 15, 20, 25}
      [] k = "revenue_growth" -> {-5, 0, 3, 5, 10, 15, 20}
      [] k = "earnings_growth" -> {0, 10}
      [] k = "beta" -> {-50, 0, 30, 50, 100, 150, 200}
AllMetricValues == UNION {MetricValues(k) : k \in MetricNames}

\* The dict that holds the metrics of f, a function on some of the names.
MetricsDict(f) ==
    LET present(k) == k \in DOMAIN f
        names == SelectSeq(MetricOrder, present)
    IN  [i \in 1..Len(names) |-> [k |-> names[i], v |-> f[names[i]]]]
MetricsInputs ==
    {MetricsDict(f) :
        f \in UNION {{g \in [S -> AllMetricValues] : \A k \in S : g[k] \in MetricValues(k)} :
                        S \in {T \in SUBSET MetricNames : Cardinality(T) <= MaxMetrics}}}

\* A value of an assessment dict: a label or a number.
Label(t) == [text |-> t, num |-> 0]
Number(n) == [text |-> "", num |-> n]

\* if metrics.get(k): the key is there and its value is not 0.
Given(metrics, k) == Has(metrics, k) /\ Get(metrics, k) # 0

analyze_valuation(metrics) ==
    LET pe == Get(metrics, "pe_ratio")
        pb == Get(metrics, "price_to_book")
        v1 == IF Given(metrics, "pe_ratio")
              THEN Put(Put(<<>>, "pe_assessment",
                           IF pe < 1500 THEN Label("Potentially undervalued (low P/E)")
                           ELSE IF pe > 2500 THEN Label("Potentially overvalued (high P/E)")
                           ELSE Label("Reasonable valuation")),
                       "pe_ratio", Number(pe))
              ELSE <<>>
        v2 == IF Given(metrics, "price_to_book")
              THEN Put(IF pb < 100 THEN Put(v1, "pb_assessment", Label("Trading below book value"))
                       ELSE IF pb > 300
                            THEN Put(v1, "pb_assessment", Label("Trading at premium to book value"))
                       ELSE v1,
                       "price_to_book", Number(pb))
              ELSE v1
    IN  v2

analyze_profitability(metrics) ==
    LET margin == Get(metrics, "profit_margin") * 100
        roe == Get(metrics, "roe") * 100
        p1 == IF Given(metrics, "profit_margin")
              THEN Put(Put(<<>>, "profit_margin", Number(margin)), "margin_assessment",
                       IF margin > 2000 THEN Label("Strong profitability")
                       ELSE IF margin > 1000 THEN Label("Good profitability")
                       ELSE Label("Low profitability"))
              ELSE <<>>
        p2 == IF Given(metrics, "roe")
              THEN Put(Put(p1, "roe", Number(roe)), "roe_assessment",
                       IF roe > 1500 THEN Label("Strong return on equity")
                       ELSE IF roe > 1000 THEN Label("Decent return on equity")
                       ELSE Label("Low return on equity"))
              ELSE p1
    IN  p2

analyze_growth(metrics) ==
    LET rev_growth == Get(metrics, "revenue_growth") * 100
        earnings_growth == Get(metrics, "earnings_growth") * 100
        g1 == IF Given(metrics, "revenue_growth")
              THEN Put(Put(<<>>, "revenue_growth", Number(rev_growth)), "growth_assessment",
                       IF rev_growth > 1500 THEN Label("Strong revenue growth")
                       ELSE IF rev_growth > 500 THEN Label("Moderate revenue growth")
                       ELSE Label("Slow revenue growth"))
              ELSE <<>>
        g2 == IF Given(metrics, "earnings_growth")
              THEN Put(g1, "earnings_growth", Number(earnings_growth))
              ELSE g1
    IN  g2

analyze_financial_health(metrics) ==
    LET de_ratio == Get(metrics, "debt_to_equity")
        beta == Get(metrics, "beta")
        h1 == IF Given(metrics, "debt_to_equity")
              THEN Put(Put(<<>>, "debt_to_equity", Number(de_ratio)), "leverage_assessment",
                       IF de_ratio < 30 THEN Label("Conservative debt levels")
                       ELSE IF de_ratio < 60 THEN Label("Moderate debt levels")
                       ELSE Label("High debt levels"))
              ELSE <<>>
        h2 == IF Given(metrics, "beta")
              THEN Put(Put(h1, "beta", Number(beta)), "risk_assessment",
                       IF beta > 150 THEN Label("High volatility vs market")
                       ELSE IF beta < 50 THEN Label("Low volatility vs market")
                       ELSE Label("Moderate volatility vs market"))
              ELSE h1
    IN  h2

\* The analysis dict of one symbol in _perform_fundamental_analysis.
FundamentalAnalysis(metrics) ==
    [valuation |-> analyze_valuation(metrics),
     profitability |-> analyze_profitability(metrics),
     growth |-> analyze_growth(metrics),
     financial_health |-> analyze_financial_health(metrics)]

\* What no call of a function on its own touches.
outside_function == <<pipeline, run, parked, report, app>>

ScorerInit ==
    /\ PipelineIdle
    /\ run = 0
    /\ parked = IdleContext
    /\ ReportIdle
    /\ AppIdle
    /\ arg \in MetricsInputs
    /\ result = <<>>

score_fundamentals ==
    /\ result = <<>>
    /\ result' = <<FundamentalAnalysis(arg)>>
    /\ UNCHANGED arg
    /\ UNCHANGED outside_function

ScorerSpec == ScorerInit /\ [][score_fundamentals]_vars

\* ======================================================== the trend signal
\* FinancialDataAgent._determine_trend_signal (src/financial_data_agent.py).
\* An Optional[float] is <<>> for None and <<x>> for the number x.
Prices == {1, 2, 3}
Averages == {<<>>} \cup {<<p>> : p \in Prices}
RsiValues == {<<>>} \cup {<<r>> : r \in {0, 29, 30, 31, 50, 69, 70, 71, 100}}
TrendInputs == [price : Prices, ma_20 : Averages, ma_50 : Averages, rsi : RsiValues]

\* The truth value of an Optional[float]: None and 0 are false.
Truthy(x) == x # <<>> /\ x[1] # 0

\* sep.join(parts): the parts with the separator between them, as pieces of text.
RECURSIVE Join(_, _)
Join(sep, parts) ==
    IF Len(parts) <= 1 THEN parts
    ELSE <<parts[1], sep>> \o Join(sep, Tail(parts))

determine_trend_signal(price, ma_20, ma_50, rsi) ==
    LET s1 == IF Truthy(ma_20) /\ Truthy(ma_50)
              THEN IF price > ma_20[1] /\ ma_20[1] > ma_50[1] THEN <<"bullish">>
                   ELSE IF price < ma_20[1] /\ ma_20[1] < ma_50[1] THEN <<"bearish">>
                   ELSE <<"neutral">>
              ELSE <<>>
        s2 == IF Truthy(rsi)
              THEN IF rsi[1] > 70 THEN Append(s1, "overbought")
                   ELSE IF rsi[1] < 30 THEN Append(s1, "oversold")
                   ELSE s1
              ELSE s1
    IN  IF s2 # <<>> THEN Join(", ", s2) ELSE <<"neutral">>

TrendInit ==
    /\ PipelineIdle
    /\ run = 0
    /\ parked = IdleContext
    /\ ReportIdle
    /\ AppIdle
    /\ arg \in TrendInputs
    /\ result = <<>>

trend_signal ==
    /\ result = <<>>
    /\ result' = <<determine_trend_signal(arg.price, arg.ma_20, arg.ma_50, arg.rsi)>>
    /\ UNCHANGED arg
    /\ UNCHANGED outside_function

TrendSpec == TrendInit /\ [][trend_signal]_vars

\* ======================================================== the volume trend
\* FinancialDataAgent._analyze_volume_trend (src/financial_data_agent.py) on
\* the Volume column of a price history.  The means are exact fractions here;
\* the code computes them in floating point.
MaxObservations == 10
MinObservations == 10
RecentWindow == 5
Volumes == {80, 100, 120}
VolumeInputs ==
    UNION {[1..n -> Volumes] : n \in (MinObservations - 1)..MaxObservations}

RECURSIVE Sum(_)
Sum(seq) == IF seq = <<>> THEN 0 ELSE seq[1] + Sum(Tail(seq))
\* Series.mean(), as the fraction num / den
Mean(seq) == [num |-> Sum(seq), den |-> Len(seq)]
\* a > b * (tenths / 10) and a < b * (tenths / 10), for means a and b
Above(a, b, tenths) == a.num * b.den * 10 > b.num * tenths * a.den
Below(a, b, tenths) == a.num * b.den * 10 < b.num * tenths * a.den

analyze_volume_trend(volume) ==
    IF Len(volume) < MinObservations THEN "insufficient_data"
    ELSE LET recent_volume == Mean(SubSeq(volume, Len(volume) - RecentWindow + 1, Len(volume)))
             historical_volume == Mean(SubSeq(volume, 1, Len(volume) - RecentWindow))
         IN  IF Above(recent_volume, historical_volume, 12) THEN "increasing"
             ELSE IF Below(recent_volume, historical_volume, 8) THEN "decreasing"
             ELSE "stable"

VolumeInit ==
    /\ PipelineIdle
    /\ run = 0
    /\ parked = IdleContext
    /\ ReportIdle
    /\ AppIdle
    /\ arg \in VolumeInputs
    /\ result = <<>>

volume_trend ==
    /\ result = <<>>
    /\ result' = <<analyze_volume_trend(arg)>>
    /\ UNCHANGED arg
    /\ UNCHANGED outside_function

VolumeSpec == VolumeInit /\ [][volume_trend]_vars

\* ================================================== the technical summary
\* FinancialDataAgent._perform_technical_analysis (src/financial_data_agent.py)
\* on one price history.  Prices and moving averages are in hundredths, so that
\* the mean of 20 or 50 whole closes is a whole number; the RSI is in units.
\* With Close and Volume columns of numbers nothing inside the try raises
\* (float division by zero gives inf or NaN), so the except branch is left to
\* the pipeline's SummaryKinds.
MaxCloses == 51
\* A close series that stays at 10, moves up at observation k and down after it.
\* The moves keep the RSI a whole number: 100, 0, 50, 20 or 80.
Moves == {<<0, 0>>, <<1, 0>>, <<0, 1>>, <<1, 1>>, <<1, 4>>, <<4, 1>>}
Closes(n, k, m) ==
    [i \in 1..n |-> IF i < k THEN 10 ELSE IF i = k THEN 10 + m[1] ELSE 10 + m[1] - m[2]]
HistoryInputs ==
    UNION {{[Close |-> Closes(n, k, m), Volume |-> [i \in 1..n |-> 100]] :
                k \in 0..n, m \in Moves} : n \in 0..MaxCloses}

\* delta.where(delta > 0, 0) and -delta.where(delta < 0, 0), delta = Close.diff():
\* the first delta is NaN, the comparison with it is False, so it becomes 0.
Gains(close) ==
    [i \in 1..Len(close) |->
        IF i > 1 /\ close[i] > close[i - 1] THEN close[i] - close[i - 1] ELSE 0]
Losses(close) ==
    [i \in 1..Len(close) |->
        IF i > 1 /\ close[i] < close[i - 1] THEN close[i - 1] - close[i] ELSE 0]

\* Faulty variant: min_periods = 1, the mean of the observations there are.
RollingOverShorterWindow(series, window) ==
    IF Len(series) < window THEN <<Mean(series)>>
    ELSE <<Mean(SubSeq(series, Len(series) - window + 1, Len(series)))>>

\* series.rolling(window).mean().iloc[-1]: NaN (<<>>) until the window is full.
Rolling(series, window) ==
    IF Len(series) < window THEN <<>>
    ELSE <<Mean(SubSeq(series, Len(series) - window + 1, Len(series)))>>

\* A mean in hundredths; None for NaN.
Hundredths(mean) ==
    IF mean = <<>> THEN <<>> ELSE <<(mean[1].num * 100) \div mean[1].den>>

\* rs = gain / loss; rsi = 100 - (100 / (1 + rs)); None when NaN.  A zero loss
\* with a gain gives rs = inf and the RSI 100.0; 0 / 0 is NaN.
RsiOf(close) ==
    LET gain == Rolling(Gains(close), 14)
        loss == Rolling(Losses(close), 14)
    IN  IF gain = <<>> \/ loss = <<>> THEN <<>>
        ELSE IF loss[1].num = 0
             THEN IF gain[1].num = 0 THEN <<>> ELSE <<100>>
             ELSE <<100 - (100 * loss[1].num) \div (gain[1].num + loss[1].num)>>

\* ((current_price - Close.iloc[-offset]) / Close.iloc[-offset]) * 100
\* if len(hist_data) > lookback else 0, as the fraction num / den
PriceChange(close, offset, lookback) ==
    IF Len(close) > lookback
    THEN [num |-> (close[Len(close)] - close[Len(close) - offset + 1]) * 100,
          den |-> close[Len(close) - offset + 1]]
    ELSE [num |-> 0, den |-> 1]

perform_technical_analysis(hist_data) ==
    IF hist_data.Close = <<>> THEN <<>>
    ELSE LET close == hist_data.Close
             current_price == close[Len(close)] * 100
             ma_20 == Hundredths(Rolling(close, 20))
             ma_50 == Hundredths(Rolling(close, 50))
             current_rsi == RsiOf(close)
         IN  <<[current_price |-> current_price,
                ma_20 |-> ma_20,
                ma_50 |-> ma_50,
                rsi |-> current_rsi,
                price_change_1d |-> PriceChange(close, 2, 1),
                price_change_1w |-> PriceChange(close, 7, 7),
                price_change_1m |-> PriceChange(close, 30, 30),
                \* pct_change().std(): NaN with fewer than two returns
                volatility |-> IF Len(close) < 3 THEN "nan" ELSE "number",
                trend_signal |->
                    determine_trend_signal(current_price, ma_20, ma_50, current_rsi),
                volume_trend |-> analyze_volume_trend(hist_data.Volume)]>>

SummaryInit ==
    /\ PipelineIdle
    /\ run = 0
    /\ parked = IdleContext
    /\ ReportIdle
    /\ AppIdle
    /\ arg \in HistoryInputs
    /\ result = <<>>

\* result holds the returned dict: <<>> for {}, <<record>> for the summary.
analysis_summary ==
    /\ result = <<>>
    /\ result' = <<perform_technical_analysis(arg)>>
    /\ UNCHANGED arg
    /\ UNCHANGED outside_function

SummarySpec == SummaryInit /\ [][analysis_summary]_vars

\* ========================================================= the application
\* main without --interactive and without --view-graphs, and
\* FinancialAnalysisApp.run_analysis (src/main.py): the analysis, the report,
\* the saving of the files, the workflow diagrams, the exit code.  arg holds
\* the command line, result the exit code of main.  The symbols are upper
\* case already, so s.upper().strip() leaves them as they are.
AppArgs == [symbols : TwoRunLists, no_report : BOOLEAN, no_save : BOOLEAN]

AppInit ==
    /\ PipelineIdle
    /\ run = 0
    /\ parked = IdleContext
    /\ ReportIdle
    /\ AppIdle
    /\ arg \in AppArgs
    /\ result = <<>>

\* What no step of main and run_analysis touches.
outside_app == <<pipeline, run, parked, report, arg>>

File(kind, s) == [kind |-> kind, symbol |-> s]

\* main: the symbols are validated, then run_analysis is called and builds
\* its results dict.
main ==
    /\ app_step = "idle"
    /\ IF arg.symbols = <<>>
       THEN /\ result' = <<1>>
            /\ app_step' = "exited"
            /\ UNCHANGED results
       ELSE /\ results' = [success |-> FALSE, analysis_data |-> "None",
                           report_data |-> "None", files_created |-> <<>>,
                           errors |-> <<>>]
            /\ app_step' = "analysis"
            /\ UNCHANGED result
    /\ UNCHANGED outside_app

\* Step 1: self.financial_agent.analyze_stocks(symbols=symbols, ...)
analyze_stocks_of_app ==
    /\ app_step = "analysis"
    /\ StartRun({arg.symbols})

\* except Exception in run_analysis: the error is appended, success is left
\* as it is.
Caught(res) ==
    [res EXCEPT !.errors = Append(@, [text |-> "Error in analysis workflow", symbol |-> "-"])]

\* get_analysis_summary, by what generate_report reads of it.
AnalysisSummary ==
    [symbols_analyzed |-> symbols,
     technical_analysis |-> processed_analysis.technical # <<>>,
     fundamental_analysis |-> processed_analysis.fundamental # <<>>,
     shape |-> "ok"]

\* analyze_stocks returned (or raised): the summary and its errors are stored.
analysis_completed ==
    /\ app_step = "analysis"
    /\ stage \in {"Done", "Raised"}
    /\ IF stage = "Raised"
       THEN /\ results' = Caught(results)
            /\ app_step' = "returned"
       ELSE /\ results' = [results EXCEPT !.analysis_data = "analysis_summary",
                                          !.errors = @ \o error_messages]
            /\ app_step' = IF ~arg.no_report THEN "report" ELSE "visualize"
    /\ UNCHANGED result
    /\ UNCHANGED outside_app

\* Step 2: self.report_writer.generate_report(analysis_data=analysis_summary, ...)
generate_report_of_app ==
    /\ app_step = "report"
    /\ GenerateReport({AnalysisSummary})

report_generated ==
    /\ app_step = "report"
    /\ writer_step = "returned"
    /\ results' = [results EXCEPT !.report_data = "report_state"]
    /\ app_step' = IF ~arg.no_save THEN "save" ELSE "visualize"
    /\ UNCHANGED result
    /\ UNCHANGED outside_app

\* Step 3: save_report, _save_analysis_json and the chart paths.  save_report
\* reads report_metadata['symbols'] and opens the file; writing a file may
\* fail.
SaveOutcome(res, report_saved, json_saved) ==
    IF report_metadata = <<>> \/ ~report_saved
    THEN [results |-> Caught(res), raised |-> TRUE]
    ELSE LET with_report ==
                 [res EXCEPT !.files_created = Append(@, File("report", "-"))]
         IN  IF ~json_saved
             THEN [results |-> Caught(with_report), raised |-> TRUE]
             ELSE [results |->
                      [with_report EXCEPT !.files_created =
                          Append(@, File("analysis_json", "-"))
                              \o [i \in 1..Len(chart_paths) |->
                                     File("chart", chart_paths[i].chart)]],
                   raised |-> FALSE]

save_results ==
    /\ app_step = "save"
    /\ \E report_saved, json_saved \in BOOLEAN :
         LET out == SaveOutcome(results, report_saved, json_saved) IN
         /\ results' = out.results
         /\ app_step' = IF out.raised THEN "returned" ELSE "visualize"
    /\ UNCHANGED result
    /\ UNCHANGED outside_app

\* self.create_workflow_visualizations catches its exceptions and returns the
\* files it has created so far.
VizFiles ==
    {SubSeq(<<File("financial_workflow", "-"), File("report_workflow", "-"),
              File("dashboard", "-"), File("execution_trace", "-")>>, 1, n) :
        n \in {0, 2, 3, 4}}

\* Faulty variant: a run with data-collection errors is not a success.
SucceededWithoutErrors(res) == [res EXCEPT !.success = (res.errors = <<>>)]

\* results['success'] = True
Succeeded(res) == [res EXCEPT !.success = TRUE]

\* Step 4: the workflow diagrams, success, the summary on the screen.
create_workflow_visualizations ==
    /\ app_step = "visualize"
    /\ \E viz_files \in VizFiles :
         results' = Succeeded([results EXCEPT !.files_created = @ \o viz_files])
    /\ app_step' = "returned"
    /\ UNCHANGED result
    /\ UNCHANGED outside_app

\* return 0 if results['success'] else 1
main_exit ==
    /\ app_step = "returned"
    /\ result' = <<IF results.success THEN 0 ELSE 1>>
    /\ app_step' = "exited"
    /\ UNCHANGED results
    /\ UNCHANGED outside_app

AppNext ==
    \/ main
    \/ analyze_stocks_of_app
    \/ collect_step_of_two
    \/ collect_end
    \/ technical_step
    \/ technical_end
    \/ fundamental_step
    \/ fundamental_end
    \/ market_sentiment_step
    \/ market_sentiment_end
    \/ generate_insights
    \/ create_visualizations_step
    \/ create_visualizations_end
    \/ final_recommendations
    \/ analysis_completed
    \/ generate_report_of_app
    \/ analyze_input_data
    \/ create_executive_summary
    \/ write_market_analysis
    \/ write_technical_analysis
    \/ write_fundamental_analysis
    \/ write_risk_assessment
    \/ write_recommendations
    \/ compile_final_report
    \/ report_generated
    \/ save_results
    \/ create_workflow_visualizations
    \/ main_exit

AppSpec == AppInit /\ [][AppNext]_vars

\* ================================================================== claims
\* The maps of processed_analysis, empty until their stage has stored them.
Technical ==
    IF "technical" \in DOMAIN processed_analysis THEN processed_analysis.technical ELSE <<>>
Fundamental ==
    IF "fundamental" \in DOMAIN processed_analysis THEN processed_analysis.fundamental ELSE <<>>
Sentiment ==
    IF "sentiment" \in DOMAIN processed_analysis THEN processed_analysis.sentiment ELSE <<>>

\* The stage order the specification states.
StageOrder == <<"data_collection", "technical_analysis", "fundamental_analysis",
                "market_sentiment", "generate_insights", "create_visualizations",
                "final_recommendations">>
StageIndex(st) == CHOOSE i \in 1..Len(StageOrder) : StageOrder[i] = st
Started(st) == \E i \in 1..Len(trace) : trace[i] = st
After(st) == stage = "Done" \/ (Started(st) /\ stage # st)
IsPrefix(p, q) == Len(p) <= Len(q) /\ \A i \in 1..Len(p) : p[i] = q[i]

\* Number of loop iterations of the running node.
StepsOf(st) ==
    IF st = "data_collection" THEN Len(symbols)
    ELSE IF st \in {"technical_analysis", "fundamental_analysis", "market_sentiment",
                    "create_visualizations"} THEN Len(raw_data)
    ELSE 0

Calls(cap, st, s) == {i \in 1..Len(calls) :
    calls[i].cap = cap /\ calls[i].stage = st /\ calls[i].symbol = s}
FailedFetches(s) == {i \in Calls("fetch", "data_collection", s) : ~calls[i].ok}
GoodFetches(s) == {i \in Calls("fetch", "data_collection", s) : calls[i].ok}
ErrorEntries(s) == {i \in 1..Len(error_messages) : error_messages[i].symbol = s}

\* C1: the stages run in the fixed order data_collection, technical_analysis,
\* fundamental_analysis, market_sentiment, generate_insights,
\* create_visualizations, final_recommendations, Done: the nodes started are
\* always a prefix of that order (none skipped, repeated or reordered), Done
\* is entered with all seven started, and a node is left only when every
\* iteration of its loop is over; data_collection is left with every requested
\* symbol either collected or recorded as failed.
C1_StageOrder ==
    [][ /\ IsPrefix(trace', StageOrder)
        /\ (stage' = "Done" => trace' = StageOrder)
        /\ stage' # "Raised"
        /\ (stage' # stage /\ stage # "START") =>
              /\ idx = StepsOf(stage) + 1
              /\ stage' = IF stage = "final_recommendations" THEN "Done"
                          ELSE StageOrder[StageIndex(stage) + 1]
        /\ (stage' # stage /\ stage = "data_collection") =>
              \A i \in 1..Len(symbols) :
                  \/ Has(raw_data', symbols[i])
                  \/ \E j \in 1..Len(error_messages') :
                        error_messages'[j].symbol = symbols[i]
      ]_vars

\* C1 witness: a finished run over two symbols with a failed fetch, a failed
\* text generation and a failed chart render.
C1_Witness ==
    /\ stage = "Done"
    /\ trace = StageOrder
    /\ Len(symbols) = 2
    /\ error_messages # <<>>
    /\ \E i \in 1..Len(calls) : calls[i].cap = "llm" /\ ~calls[i].ok
    /\ \E i \in 1..Len(calls) : calls[i].cap = "chart" /\ ~calls[i].ok

\* C2: after data collection, a requested symbol whose fetch raised is no key
\* of raw_data, of the technical, fundamental or sentiment map, and
\* error_messages holds exactly one entry that names it.
C2_FailedSymbolOnlyInErrors ==
    After("data_collection") =>
        \A s \in Symbols :
            FailedFetches(s) # {} =>
                /\ ~Has(raw_data, s)
                /\ ~Has(Technical, s)
                /\ ~Has(Fundamental, s)
                /\ ~Has(Sentiment, s)
                /\ Cardinality(ErrorEntries(s)) = 1

\* The text-generation call of the sentiment stage about symbol s.
SentimentCalls(s) == Calls("llm", "market_sentiment", s)
SentimentCallOk(s) == \E i \in SentimentCalls(s) : calls[i].ok
Generated(s, data) ==
    [sentiment |-> [content |-> "response", stage |-> "market_sentiment", symbol |-> s],
     news_count |-> data.news]
FallbackSentiment ==
    [sentiment |-> [content |-> "Neutral - Unable to analyze", stage |-> "-", symbol |-> "-"],
     news_count |-> 0]

\* C3 as stated: at Done every symbol with a successful fetch is a key of the
\* technical, fundamental and sentiment maps.
C3_CollectedSymbolInEveryMap ==
    stage = "Done" =>
        \A s \in Symbols :
            GoodFetches(s) # {} =>
                /\ Has(raw_data, s)
                /\ Has(Technical, s)
                /\ Has(Fundamental, s)
                /\ Has(Sentiment, s)

\* C3 amended: at Done every symbol with a successful fetch is a key of
\* raw_data and of the sentiment map, and a key of the technical (fundamental)
\* map unless its own technical (fundamental) computation raised; each of its
\* results is the one its own data and its own text-generation call give,
\* whatever happened to the fetches of the other symbols.
C3_ResultsIndependentOfOtherFetches ==
    stage = "Done" =>
        \A s \in Symbols :
            GoodFetches(s) # {} =>
                /\ Has(raw_data, s)
                /\ LET data == Get(raw_data, s) IN
                   /\ Has(Technical, s) <=> data.summary # "none"
                   /\ Has(Technical, s) =>
                        Get(Technical, s).price_changes =
                            (IF data.summary = "full" THEN "numbers" ELSE "None")
                   /\ Has(Fundamental, s) <=> data.metrics = "numeric"
                   /\ Has(Sentiment, s)
                   /\ Get(Sentiment, s) =
                        (IF SentimentCallOk(s) THEN Generated(s, data) ELSE FallbackSentiment)

\* C3 witness: a finished run in which the fetch of one symbol failed and
\* another symbol has its three complete results.
C3_Witness ==
    /\ stage = "Done"
    /\ \E s \in Symbols, f \in Symbols :
        /\ s # f
        /\ FailedFetches(f) # {} /\ GoodFetches(f) = {}
        /\ GoodFetches(s) # {}
        /\ Has(Technical, s) /\ Has(Fundamental, s)
        /\ Has(Sentiment, s) /\ Get(Sentiment, s) # FallbackSentiment

\* C4: whatever calls of the fetch, the text generation and the chart renderer
\* fail, the run reaches Done.
C4_ReachesDone == <>(stage = "Done")

\* C4 witness: Done after a failed fetch, a failed sentiment call, failed
\* insights and recommendations calls and a failed chart render.
C4_Witness ==
    /\ stage = "Done"
    /\ \E s \in Symbols : FailedFetches(s) # {}
    /\ \E s \in Symbols : SentimentCalls(s) # {} /\ ~SentimentCallOk(s)
    /\ \E i \in Calls("llm", "generate_insights", "*") : ~calls[i].ok
    /\ \E i \in Calls("llm", "final_recommendations", "*") : ~calls[i].ok
    /\ \E i \in 1..Len(calls) : calls[i].cap = "chart" /\ ~calls[i].ok

C6_GenerationFailuresLogged ==
    stage = "Done" =>
        Len(error_messages) =
            Cardinality({i \in 1..Len(calls) : calls[i].cap \in {"fetch", "llm"} /\ ~calls[i].ok})

\* Whether the per-symbol step of a stage raised for symbol s with this data.
TechnicalStepRaised(data) == data.summary = "none"
FundamentalStepRaised(data) == data.metrics = "text"
SentimentStepRaised(s) == ~SentimentCallOk(s)

\* C7 as stated: in the technical, fundamental and sentiment stages the symbol
\* whose step raised is no key of the stage's map, and every other symbol of
\* raw_data is.
C7_RaisedSymbolOmittedInAllThree ==
    \A i \in 1..Len(raw_data) :
        LET s == raw_data[i].k
            data == raw_data[i].v
        IN  /\ After("technical_analysis") =>
                (Has(Technical, s) <=> ~TechnicalStepRaised(data))
            /\ After("fundamental_analysis") =>
                (Has(Fundamental, s) <=> ~FundamentalStepRaised(data))
            /\ After("market_sentiment") =>
                (Has(Sentiment, s) <=> ~SentimentStepRaised(s))

\* C7 amended: in the technical and fundamental stages the symbol whose step
\* raised is no key of the stage's map and every other symbol of raw_data is;
\* in the sentiment stage every symbol of raw_data is a key of the map, the
\* one whose step raised with the fallback entry, the others with the
\* generated text.
C7_RaisedSymbolOmittedOrFallback ==
    \A i \in 1..Len(raw_data) :
        LET s == raw_data[i].k
            data == raw_data[i].v
        IN  /\ After("technical_analysis") =>
                (Has(Technical, s) <=> ~TechnicalStepRaised(data))
            /\ After("fundamental_analysis") =>
                (Has(Fundamental, s) <=> ~FundamentalStepRaised(data))
            /\ After("market_sentiment") =>
                /\ Has(Sentiment, s)
                /\ SentimentStepRaised(s) => Get(Sentiment, s) = FallbackSentiment
                /\ ~SentimentStepRaised(s) => Get(Sentiment, s) = Generated(s, data)

\* C7 witness: after the sentiment stage, the first symbol of raw_data raised
\* in the technical stage, and the second symbol was processed by all three.
C7_Witness ==
    /\ After("market_sentiment")
    /\ Len(raw_data) = 2
    /\ TechnicalStepRaised(raw_data[1].v)
    /\ ~Has(Technical, raw_data[1].k)
    /\ Has(Technical, raw_data[2].k)
    /\ Has(Fundamental, raw_data[2].k)
    /\ Has(Sentiment, raw_data[2].k)
    /\ Get(Sentiment, raw_data[1].k) = FallbackSentiment

\* C8: a collected symbol whose sentiment operation failed has the fallback
\* text and a news count of 0 as its sentiment result, whatever the number of
\* its news items.
C8_FallbackHasZeroNews ==
    After("market_sentiment") =>
        \A i \in 1..Len(raw_data) :
            LET s == raw_data[i].k IN
            ~SentimentCallOk(s) =>
                /\ Has(Sentiment, s)
                /\ Get(Sentiment, s).sentiment.content = "Neutral - Unable to analyze"
                /\ Get(Sentiment, s).news_count = 0

\* C8 witness: the text-generation call failed for a symbol that has news.
C8_Witness ==
    /\ After("market_sentiment")
    /\ \E i \in 1..Len(raw_data) :
        /\ raw_data[i].v.news > 0
        /\ SentimentCalls(raw_data[i].k) # {}
        /\ ~SentimentCallOk(raw_data[i].k)
        /\ Get(Sentiment, raw_data[i].k).news_count = 0

InsightsCalls == Calls("llm", "generate_insights", "*")
RecommendationsCalls == Calls("llm", "final_recommendations", "*")

\* C9: the insights and the recommendations stage make one text-generation
\* call each; when the insights call raised, insights is the fallback text and
\* the run is in a later stage; when the recommendations call raised,
\* recommendations is the one-element list of the fallback text and the run
\* is at Done.
C9_AggregateFallback ==
    /\ Started("generate_insights") /\ stage # "generate_insights" =>
        /\ Cardinality(InsightsCalls) = 1
        /\ stage \in {"create_visualizations", "final_recommendations", "Done"}
        /\ \A i \in InsightsCalls : ~calls[i].ok =>
              processed_analysis.insights =
                  [content |-> "Unable to generate insights due to an error.",
                   stage |-> "-", symbol |-> "-"]
    /\ Started("final_recommendations") /\ stage # "final_recommendations" =>
        /\ Cardinality(RecommendationsCalls) = 1
        /\ stage = "Done"
        /\ \A i \in RecommendationsCalls : ~calls[i].ok =>
              recommendations =
                  <<[content |-> "Unable to generate recommendations due to an error.",
                     stage |-> "-", symbol |-> "-"]>>

\* C9 witness: Done, with both aggregate calls failed.
C9_Witness ==
    /\ stage = "Done"
    /\ Len(raw_data) >= 1
    /\ \A i \in InsightsCalls : ~calls[i].ok
    /\ \A i \in RecommendationsCalls : ~calls[i].ok
    /\ Len(recommendations) = 1

ChartRendered(s) == \E i \in Calls("chart", "create_visualizations", s) : calls[i].ok
RenderedPaths ==
    LET rendered == SelectSeq(Keys(raw_data), ChartRendered)
    IN  [i \in 1..Len(rendered) |-> [chart |-> rendered[i]]]

\* C10: after the visualization stage chart_paths holds one path for every
\* symbol of raw_data whose render succeeded, in the order of raw_data, and
\* none for a symbol whose render failed; the run is then in the
\* recommendations stage or at Done.
C10_ChartPathsOfRenderedSymbols ==
    Started("create_visualizations") /\ stage # "create_visualizations" =>
        /\ chart_paths = RenderedPaths
        /\ stage \in {"final_recommendations", "Done"}

\* C10 witness: two collected symbols, the render of the first failed and
\* that of the second succeeded.
C10_Witness ==
    /\ stage = "final_recommendations"
    /\ Len(raw_data) = 2
    /\ ~ChartRendered(raw_data[1].k)
    /\ ChartRendered(raw_data[2].k)
    /\ Len(chart_paths) = 1

\* ------------------------------------------------------------ C11 .. C20
Requested == {symbols[i] : i \in 1..Len(symbols)}
IsFailedFetch(c) == c.cap = "fetch" /\ ~c.ok
\* The entries the stages of the executing call write to messages.
OwnMessages ==
    {[text |-> "Collected data for symbols", n |-> Len(raw_data)],
     [text |-> "Technical analysis completed", n |-> 0],
     [text |-> "Fundamental analysis completed", n |-> 0],
     [text |-> "Market sentiment analysis completed", n |-> 0],
     [text |-> "Insights generated successfully", n |-> 0],
     [text |-> "Created visualizations", n |-> Len(chart_paths)],
     [text |-> "Investment recommendations generated", n |-> 0]}

\* The context of the executing call holds only what its own symbols, its own
\* stages and its own external calls gave.
OwnEntriesOnly ==
    /\ KeySet(raw_data) \subseteq Requested
    /\ KeySet(Technical) \cup KeySet(Fundamental) \cup KeySet(Sentiment)
            \subseteq KeySet(raw_data)
    /\ \A i \in 1..Len(calls) : calls[i].symbol \in Requested \cup {"*"}
    /\ After("data_collection") =>
          LET failed == SelectSeq(calls, IsFailedFetch) IN
          /\ Len(error_messages) = Len(failed)
          /\ \A i \in 1..Len(failed) :
                error_messages[i] =
                    [text |-> "Failed to collect data for", symbol |-> failed[i].symbol]
    /\ stage \in {"START", "data_collection"} => error_messages = <<>>
    /\ After("create_visualizations") => chart_paths = RenderedPaths
    /\ ~Started("create_visualizations") => chart_paths = <<>>
    /\ \A i \in 1..Len(messages) : messages[i] \in OwnMessages

\* C11: two calls of analyze_stocks on one agent, one after the other or
\* alternating between stages: a step of one call leaves the other call's
\* context as it was, a call that goes on finds its context as it left it, and
\* the context of the executing call (raw_data, the technical, fundamental and
\* sentiment maps, chart_paths, messages, error_messages) holds only entries
\* of its own symbols and stages, determined by its own external calls.
C11_RunsIsolated ==
    [][ /\ run' = run => parked' = parked
        /\ run' # run => (parked' = Context /\ Context' = parked)
        /\ OwnEntriesOnly'
      ]_vars

\* C11 witness: both calls have returned, they analysed different symbols,
\* each collected its symbol, and each holds its own seven kinds of message.
C11_Witness ==
    /\ run \in {1, 2}
    /\ stage = "Done" /\ parked.stage = "Done"
    /\ KeySet(raw_data) = {"A"} /\ KeySet(parked.raw_data) = {"B"}
    /\ chart_paths = <<[chart |-> "A"]>> /\ parked.chart_paths = <<[chart |-> "B"]>>
    /\ {messages[i] : i \in 1..Len(messages)} = OwnMessages
    /\ parked.messages # <<>>

FetchCalls(s) == Calls("fetch", "data_collection", s)
ChartCalls(s) == Calls("chart", "create_visualizations", s)

\* C12: in a finished run the fetch was called exactly once for every
\* requested symbol (so a fetch that failed was not issued again), the text
\* generation at most once per collected symbol in the sentiment stage and
\* exactly once in the insights and in the recommendations stage, and the
\* chart renderer exactly once per collected symbol.
C12_EveryCallOnce ==
    stage = "Done" =>
        /\ \A s \in Symbols :
              Cardinality(FetchCalls(s)) = (IF s \in Requested THEN 1 ELSE 0)
        /\ \A s \in Symbols :
              Cardinality(SentimentCalls(s)) <= (IF Has(raw_data, s) THEN 1 ELSE 0)
        /\ Cardinality(InsightsCalls) = 1
        /\ Cardinality(RecommendationsCalls) = 1
        /\ \A s \in Symbols :
              Cardinality(ChartCalls(s)) = (IF Has(raw_data, s) THEN 1 ELSE 0)

\* The seven entries of example_messages (graph_visualizer.py), with the
\* counts of this run.
StageLog ==
    <<[text |-> "Collected data for symbols", n |-> Len(raw_data)],
      [text |-> "Technical analysis completed", n |-> 0],
      [text |-> "Fundamental analysis completed", n |-> 0],
      [text |-> "Market sentiment analysis completed", n |-> 0],
      [text |-> "Insights generated successfully", n |-> 0],
      [text |-> "Created visualizations", n |-> Len(chart_paths)],
      [text |-> "Investment recommendations generated", n |-> 0]>>
AllCallsSucceeded == \A i \in 1..Len(calls) : calls[i].ok

\* C13: in a finished run in which every fetch, text-generation call and
\* chart render succeeded, messages is the log of the seven stage completions:
\* seven entries, one per stage, in stage order, none repeated.
C13_SevenMessages ==
    (stage = "Done" /\ AllCallsSucceeded) => messages = StageLog

\* The technical and fundamental maps of the call that is not executing.
ParkedTechnical ==
    IF "technical" \in DOMAIN parked.processed_analysis
    THEN parked.processed_analysis.technical ELSE <<>>
ParkedFundamental ==
    IF "fundamental" \in DOMAIN parked.processed_analysis
    THEN parked.processed_analysis.fundamental ELSE <<>>
BothScored ==
    /\ run \in {1, 2}
    /\ "fundamental" \in DOMAIN processed_analysis
    /\ "fundamental" \in DOMAIN parked.processed_analysis

SectionKinds ==
    {"executive_summary", "market_analysis", "technical_analysis",
     "fundamental_analysis", "risk_assessment", "recommendations"}
TitleOfKind(kind) ==
    CASE kind = "executive_summary" -> "EXECUTIVE SUMMARY"
      [] kind = "market_analysis" -> "MARKET ANALYSIS"
      [] kind = "technical_analysis" -> "TECHNICAL ANALYSIS"
      [] kind = "fundamental_analysis" -> "FUNDAMENTAL ANALYSIS"
      [] kind = "risk_assessment" -> "RISK ASSESSMENT"
      [] kind = "recommendations" -> "INVESTMENT RECOMMENDATIONS"
\* The places of the final report that hold the section of a kind.
PartsOfKind(kind) ==
    {i \in 1..Len(final_report) :
        final_report[i].part = "section" /\ final_report[i].text = <<TitleOfKind(kind)>>}
SectionsOfKind(kind) ==
    {i \in 1..Len(report_sections) : report_sections[i].section_type = kind}
ReportCompiled == writer_step = "returned" /\ final_report # <<>>
\* The text-generation call of the writer of a kind returned.
WriterCallOk(kind) ==
    \E i \in 1..Len(report_calls) : report_calls[i].section = kind /\ report_calls[i].ok

SectionParts == {i \in 1..Len(final_report) : final_report[i].part = "section"}

\* C16: at every step of generate_report, report_sections holds at most one
\* section of each kind; the compiled report holds each collected section
\* once: as many section parts as collected sections, one per collected kind.
C16_NoDuplicateSection ==
    /\ \A kind \in SectionKinds : Cardinality(SectionsOfKind(kind)) <= 1
    /\ ReportCompiled =>
          /\ Cardinality(SectionParts) = Len(report_sections)
          /\ \A kind \in SectionKinds :
                Cardinality(PartsOfKind(kind)) = Cardinality(SectionsOfKind(kind))

\* C16 witness: a compiled report of all six sections.
C16_Witness ==
    /\ ReportCompiled
    /\ Len(report_sections) = 6
    /\ Cardinality(SectionParts) = 6
    /\ Len(analysis_data.symbols_analyzed) = 1

\* C17: a call of analyze_stocks with no symbols goes no further: no stage is
\* started and no external capability (fetch, text generation, chart render)
\* is called.
C17_EmptyRequestRejected ==
    (stage # "START" /\ symbols = <<>>) => (trace = <<>> /\ calls = <<>>)

\* The threshold table of the specification, in hundredths: the label of a
\* metric with value v ("-": the table gives none).
TableLabel(k, v) ==
    CASE k = "pe_ratio" ->
            IF v < 1500 THEN "Potentially undervalued (low P/E)"
            ELSE IF v > 2500 THEN "Potentially overvalued (high P/E)"
            ELSE "Reasonable valuation"
      [] k = "price_to_book" ->
            IF v < 100 THEN "Trading below book value"
            ELSE IF v > 300 THEN "Trading at premium to book value"
            ELSE "-"
      [] k = "profit_margin" ->
            IF v > 20 THEN "Strong profitability"
            ELSE IF v > 10 THEN "Good profitability"
            ELSE "Low profitability"
      [] k = "roe" ->
            IF v > 15 THEN "Strong return on equity"
            ELSE IF v > 10 THEN "Decent return on equity"
            ELSE "Low return on equity"
      [] k = "revenue_growth" ->
            IF v > 15 THEN "Strong revenue growth"
            ELSE IF v > 5 THEN "Moderate revenue growth"
            ELSE "Slow revenue growth"
      [] k = "debt_to_equity" ->
            IF v < 30 THEN "Conservative debt levels"
            ELSE IF v < 60 THEN "Moderate debt levels"
            ELSE "High debt levels"
      [] k = "beta" ->
            IF v > 150 THEN "High volatility vs market"
            ELSE IF v < 50 THEN "Low volatility vs market"
            ELSE "Moderate volatility vs market"
\* Where the assessment keeps the label of a metric.
LabelledMetrics ==
    {"pe_ratio", "price_to_book", "profit_margin", "roe", "revenue_growth",
     "debt_to_equity", "beta"}
GroupOf(k) ==
    CASE k \in {"pe_ratio", "price_to_book"} -> "valuation"
      [] k \in {"profit_margin", "roe"} -> "profitability"
      [] k = "revenue_growth" -> "growth"
      [] k \in {"debt_to_equity", "beta"} -> "financial_health"
LabelKey(k) ==
    CASE k = "pe_ratio" -> "pe_assessment"
      [] k = "price_to_book" -> "pb_assessment"
      [] k = "profit_margin" -> "margin_assessment"
      [] k = "roe" -> "roe_assessment"
      [] k = "revenue_growth" -> "growth_assessment"
      [] k = "debt_to_equity" -> "leverage_assessment"
      [] k = "beta" -> "risk_assessment"

\* C18: the assessment of a metrics dict holds, for every metric that is
\* present (whatever its value: zero, negative, on a threshold), exactly the
\* label the threshold table gives for the value, none where the table gives
\* none, and no key at all for a metric that is absent.
C18_ScorerIsTable ==
    result # <<>> =>
        \A k \in LabelledMetrics :
            LET group == result[1][GroupOf(k)] IN
            IF Has(arg, k)
            THEN /\ Has(group, k)
                 /\ IF TableLabel(k, Get(arg, k)) = "-"
                    THEN ~Has(group, LabelKey(k))
                    ELSE /\ Has(group, LabelKey(k))
                         /\ Get(group, LabelKey(k)).text = TableLabel(k, Get(arg, k))
            ELSE ~Has(group, k) /\ ~Has(group, LabelKey(k))

\* The trend signal the specification states for price p, optional averages
\* m20 and m50 and optional RSI r.
StatedTrend(p, m20, m50, r) ==
    LET averages == IF m20 # <<>> /\ m50 # <<>>
                    THEN IF p > m20[1] /\ m20[1] > m50[1] THEN <<"bullish">>
                         ELSE IF p < m20[1] /\ m20[1] < m50[1] THEN <<"bearish">>
                         ELSE <<"neutral">>
                    ELSE <<>>
        momentum == IF r # <<>> /\ r[1] > 70 THEN <<"overbought">>
                    ELSE IF r # <<>> /\ r[1] < 30 THEN <<"oversold">>
                    ELSE <<>>
    IN  IF averages \o momentum = <<>> THEN <<"neutral">>
        ELSE IF Len(averages \o momentum) = 1 THEN averages \o momentum
        ELSE <<averages[1], ", ", momentum[1]>>

\* C19: for every price, optional ma_20, optional ma_50 and optional RSI from
\* 0 to 100, the trend signal is bullish / bearish / neutral from the two
\* averages when both exist, followed by overbought for an RSI above 70 or
\* oversold for an RSI below 30, and neutral when there is neither.
C19_TrendSignalAsStated ==
    result # <<>> => result[1] = StatedTrend(arg.price, arg.ma_20, arg.ma_50, arg.rsi)

\* Sum of the last 5 volumes and of the volumes before them.
RecentSum == Sum(SubSeq(arg, Len(arg) - 4, Len(arg)))
HistoricalSum == Sum(SubSeq(arg, 1, Len(arg) - 5))

\* C20: the volume trend of a series is insufficient_data below 10
\* observations; otherwise, with R the mean of the last 5 volumes and H the
\* mean of the volumes before them, increasing if R >= 1.2 H, decreasing if
\* R <= 0.8 H, and stable otherwise.  (R >= 1.2 H is 10 R >= 12 H, with
\* R = RecentSum / 5 and H = HistoricalSum / (n - 5).)
C20_VolumeTrendInclusive ==
    result # <<>> =>
        result[1] =
            IF Len(arg) < 10 THEN "insufficient_data"
            ELSE IF 10 * RecentSum * (Len(arg) - 5) >= 12 * HistoricalSum * 5 THEN "increasing"
            ELSE IF 10 * RecentSum * (Len(arg) - 5) <= 8 * HistoricalSum * 5 THEN "decreasing"
            ELSE "stable"

\* ----------------------------------------------------------------------- C21
\* The price history handed to _perform_technical_analysis and the summary
\* it returned.
Close == arg.Close
Observations == Len(arg.Close)
Summarised == result # <<>> /\ arg.Close # <<>>
Summary == result[1][1]
\* The sum of the losses among the last 14 changes of the close.
TrailingLoss ==
    Sum([i \in 1..14 |->
            IF Close[Observations - 14 + i] < Close[Observations - 15 + i]
            THEN Close[Observations - 15 + i] - Close[Observations - 14 + i]
            ELSE 0])

\* C21: the RSI of a non-empty price series is undefined (None in the
\* summary) whenever the series has fewer than 15 observations and whenever
\* the average loss over the trailing 14 periods is zero, and it is defined
\* in every other case.
C21_RsiUndefinedAsStated ==
    Summarised =>
        (Summary.rsi = <<>> <=> (Observations < 15 \/ TrailingLoss = 0))

\* ----------------------------------------------------------------------- C22
\* The step of generate_report a node of the drawn report workflow stands for.
StepDrawn(label) ==
    CASE label = "START" -> "idle"
      [] label = "Analyze Data" -> "analyze_input_data"
      [] label = "Executive Summary" -> "create_executive_summary"
      [] label = "Market Analysis" -> "write_market_analysis"
      [] label = "Technical Analysis" -> "write_technical_analysis"
      [] label = "Fundamental Analysis" -> "write_fundamental_analysis"
      [] label = "Risk Assessment" -> "write_risk_assessment"
      [] label = "Recommendations" -> "write_recommendations"
      [] label = "Compile Report" -> "compile_final_report"
      [] label = "END" -> "returned"
DrawnSteps ==
    {<<StepDrawn(ReportWorkflowEdges[i][1]), StepDrawn(ReportWorkflowEdges[i][2])>> :
        i \in 1..Len(ReportWorkflowEdges)}
\* The section titles of a report, in ascending section order.
TitlesInOrder ==
    <<"EXECUTIVE SUMMARY", "MARKET ANALYSIS", "TECHNICAL ANALYSIS",
      "FUNDAMENTAL ANALYSIS", "RISK ASSESSMENT", "INVESTMENT RECOMMENDATIONS">>
OrderOfTitle(t) == CHOOSE i \in 1..Len(TitlesInOrder) : TitlesInOrder[i] = t
\* One header first, one footer last, and between them sections only, in
\* ascending section order.
OrderedReport(parts) ==
    /\ Len(parts) >= 2
    /\ parts[1].part = "header"
    /\ parts[Len(parts)].part = "footer"
    /\ \A i \in 2..(Len(parts) - 1) : parts[i].part = "section"
    /\ \A i, j \in 2..(Len(parts) - 1) :
          i < j => OrderOfTitle(parts[i].text[1]) < OrderOfTitle(parts[j].text[1])
\* The steps that come before st in the order of the drawn workflow.
RECURSIVE DrawnBefore(_)
DrawnBefore(st) ==
    IF st = "idle" THEN {}
    ELSE LET before == CHOOSE e \in DrawnSteps : e[2] = st
         IN  {before[1]} \cup DrawnBefore(before[1])

\* C22: the compiled report lists its sections in ascending section order
\* whichever sections are missing, between one header and one footer; the
\* steps of the report writer run in the fixed order analyze data, executive
\* summary, market, technical, fundamental, risk, recommendations, compile
\* (a step is followed by the next one, or by the return of generate_report),
\* and that order is the path drawn by visualize_report_workflow.
C22_OrderedSectionsAndSteps ==
    [][ /\ writer_step' # writer_step =>
              \/ <<writer_step, writer_step'>> \in DrawnSteps
              \/ writer_step' = "returned"
        /\ \A i \in 1..Len(WriterSteps) :
              Cardinality(DrawnBefore(WriterSteps[i])) = i
        /\ final_report' # <<>> => OrderedReport(final_report')
      ]_vars

\* C22 witness: a report compiled after all eight steps, with the market and
\* the fundamental sections missing and four sections between header and footer.
C22_Witness ==
    /\ writer_step = "returned"
    /\ Len(final_report) = 6
    /\ [i \in 1..4 |-> final_report[i + 1].text[1]] =
          <<"EXECUTIVE SUMMARY", "TECHNICAL ANALYSIS", "RISK ASSESSMENT",
            "INVESTMENT RECOMMENDATIONS">>

\* ----------------------------------------------------------------------- C23
WriterOf(kind) == Writers[CHOOSE i \in 1..Len(Writers) : Writers[i].section_type = kind]
StepIndex(st) == CHOOSE j \in 1..Len(WriterSteps) : WriterSteps[j] = st
\* generate_report has gone past the writer of a kind.
WriterPassed(kind) ==
    \/ /\ writer_step \in {WriterSteps[j] : j \in 1..Len(WriterSteps)}
       /\ StepIndex(writer_step) > StepIndex(WriterOf(kind).step)
    \/ /\ writer_step = "returned"
       /\ analysis_data.shape # "symbols_none"
CallsOfKind(kind) ==
    {i \in 1..Len(report_calls) : report_calls[i].section = kind}
WriterCallFailed(kind) == \E i \in CallsOfKind(kind) : ~report_calls[i].ok
Count(msgs, text) == Cardinality({i \in 1..Len(msgs) : msgs[i] = text})

\* C23: in generate_report a failed text-generation call of a section writer
\* leaves only that section out of report_sections and appends one error
\* message for it; every later writer still runs (it leaves its own message)
\* and so does the final compilation, and generate_report returns the report
\* state, whatever subset of the section calls failed.
C23_WriterFailureIsolated ==
    /\ writer_step \in {"idle", "returned"} \cup {WriterSteps[j] : j \in 1..Len(WriterSteps)}
    /\ \A kind \in SectionKinds :
          WriterPassed(kind) =>
              LET w == WriterOf(kind) IN
              /\ WriterCallFailed(kind) =>
                    /\ SectionsOfKind(kind) = {}
                    /\ Count(report_messages, w.error) = 1
                    /\ Count(report_messages, w.done) = 0
              /\ WriterCallOk(kind) =>
                    /\ Cardinality(SectionsOfKind(kind)) = 1
                    /\ Count(report_messages, w.done) = 1
                    /\ Count(report_messages, w.error) = 0
              /\ Count(report_messages, w.done) + Count(report_messages, w.error)
                    + Count(report_messages, w.skipped) = 1
    /\ (writer_step = "returned" /\ analysis_data.shape = "ok") =>
          /\ report_messages[Len(report_messages)] = "Final report compilation completed"
          /\ Len(report_messages) = Len(WriterSteps)
          /\ Len(final_report) = Len(report_sections) + 2
          /\ \A kind \in SectionKinds :
                Cardinality(PartsOfKind(kind)) = (IF WriterCallOk(kind) THEN 1 ELSE 0)

\* C23 witness: the calls of the executive summary and of the risk assessment
\* failed, the other four returned, and the report was compiled of those four.
C23_Witness ==
    /\ writer_step = "returned"
    /\ analysis_data.shape = "ok"
    /\ {kind \in SectionKinds : WriterCallFailed(kind)} =
          {"executive_summary", "risk_assessment"}
    /\ {report_sections[i].section_type : i \in 1..Len(report_sections)} =
          {"market_analysis", "technical_analysis", "fundamental_analysis", "recommendations"}
    /\ Len(final_report) = 6

\* ----------------------------------------------------------------------- C24
\* The stages that work on raw_data, with the map each stores and the message
\* each appends when it has done its work.
DataStages == {"technical_analysis", "fundamental_analysis", "market_sentiment"}
OutputOf(st) ==
    CASE st = "technical_analysis" -> Technical
      [] st = "fundamental_analysis" -> Fundamental
      [] st = "market_sentiment" -> Sentiment
CompletionMessage(st) ==
    CASE st = "technical_analysis" -> "Technical analysis completed"
      [] st = "fundamental_analysis" -> "Fundamental analysis completed"
      [] st = "market_sentiment" -> "Market sentiment analysis completed"
Logged(text) == \E i \in 1..Len(messages) : messages[i].text = text

\* C24: a stage that finds raw_data empty (every fetch failed) short-circuits:
\* it leaves its output map empty and logs a skip message, not its completion
\* message; a stage that finds data does its work and logs its completion
\* message.
C24_EmptyDataShortCircuits ==
    \A st \in DataStages :
        After(st) =>
            /\ (symbols # <<>> /\ raw_data = <<>>) =>
                  /\ OutputOf(st) = <<>>
                  /\ ~Logged(CompletionMessage(st))
            /\ raw_data # <<>> => Logged(CompletionMessage(st))

\* ----------------------------------------------------------------------- C25
\* The writers that need a map of the input, with their skip message.
SkipMessage(kind) ==
    CASE kind = "technical_analysis" -> "Skipped technical analysis - no data available"
      [] kind = "fundamental_analysis" -> "Skipped fundamental analysis - no data available"
\* The writer of a kind finds no data: its map is empty or missing.
NoData(kind) ==
    kind \in {"technical_analysis", "fundamental_analysis"} /\ ~analysis_data[kind]

\* C25: when the technical (fundamental) analysis map of the input is empty
\* or missing, the technical (fundamental) section writer makes no
\* text-generation call, adds no section and appends exactly one
\* "Skipped ... - no data available" message and no other one; every other
\* section writer makes its one call.
C25_EmptyMapSkipsWriter ==
    \A kind \in SectionKinds :
        WriterPassed(kind) =>
            IF NoData(kind)
            THEN /\ CallsOfKind(kind) = {}
                 /\ SectionsOfKind(kind) = {}
                 /\ Count(report_messages, SkipMessage(kind)) = 1
                 /\ Count(report_messages, WriterOf(kind).done) = 0
                 /\ Count(report_messages, WriterOf(kind).error) = 0
            ELSE /\ Cardinality(CallsOfKind(kind)) = 1
                 /\ \A k \in {"technical_analysis", "fundamental_analysis"} :
                       Count(report_messages, SkipMessage(k)) =
                           (IF WriterPassed(k) /\ NoData(k) THEN 1 ELSE 0)

\* C25 witness: the input has no technical map; the technical writer was
\* skipped and the other five writers made their calls.
C25_Witness ==
    /\ writer_step = "returned"
    /\ analysis_data.shape = "ok"
    /\ ~analysis_data.technical_analysis
    /\ analysis_data.fundamental_analysis
    /\ CallsOfKind("technical_analysis") = {}
    /\ Len(report_calls) = 5
    /\ Count(report_messages, "Skipped technical analysis - no data available") = 1

\* ----------------------------------------------------------------------- C26
\* C26: for every non-empty price series, ma_20 (ma_50) is None in the
\* summary when the series has fewer than 20 (50) observations, and otherwise
\* is the mean of the last 20 (50) closes (averages are in hundredths).
C26_MovingAverages ==
    Summarised =>
        /\ Observations < 20 => Summary.ma_20 = <<>>
        /\ Observations >= 20 =>
              /\ Summary.ma_20 # <<>>
              /\ 20 * Summary.ma_20[1]
                    = 100 * Sum(SubSeq(Close, Observations - 19, Observations))
        /\ Observations < 50 => Summary.ma_50 = <<>>
        /\ Observations >= 50 =>
              /\ Summary.ma_50 # <<>>
              /\ 50 * Summary.ma_50[1]
                    = 100 * Sum(SubSeq(Close, Observations - 49, Observations))

\* A history of at least 50 closes that moved inside the last 20: both
\* averages are defined and differ.
C26_Witness ==
    /\ Summarised
    /\ Observations >= 50
    /\ Summary.ma_20 # <<>>
    /\ Summary.ma_50 # <<>>
    /\ Summary.ma_20 # Summary.ma_50

\* ----------------------------------------------------------------------- C27
\* The price-change fields with the number of observations they look back.
Lookbacks ==
    {[field |-> "price_change_1d", back |-> 1],
     [field |-> "price_change_1w", back |-> 7],
     [field |-> "price_change_1m", back |-> 30]}

\* C27: for every non-empty price series, each price-change percentage
\* (1 day, 1 week = 7 observations, 1 month = 30 observations) is
\* (current - past) / past * 100 against the close that many observations
\* back if the series has strictly more observations than the lookback, and
\* otherwise the field is present with value 0.
C27_PriceChangesAsStated ==
    Summarised =>
        \A l \in Lookbacks :
            LET change == Summary[l.field]
                current == Close[Observations]
            IN  IF Observations > l.back
                THEN LET past == Close[Observations - l.back]
                     IN  change.num * past = (current - past) * 100 * change.den
                ELSE change.num = 0

\* ----------------------------------------------------------------------- C28
\* The collected symbols whose technical summary carries no price changes: the
\* price history was empty ({}) or the indicator computation failed
\* ({'error': ...}).
WithoutPriceChanges ==
    {s \in KeySet(raw_data) : Get(raw_data, s).summary \in {"empty", "error"}}

\* C28: for a collected symbol whose technical summary carries no price-change
\* values, the sentiment stage makes no text-generation call about that symbol
\* and records the fallback sentiment with news count 0, although the fetch
\* of the symbol succeeded.
C28_NoPriceChangesNoSentimentCall ==
    After("market_sentiment") =>
        \A s \in WithoutPriceChanges :
            /\ GoodFetches(s) # {}
            /\ SentimentCalls(s) = {}
            /\ Has(Sentiment, s)
            /\ Get(Sentiment, s) = FallbackSentiment

\* C28 witness: a finished run in which a symbol with news and an empty price
\* history got the fallback without a call, and another symbol with a full
\* summary got a generated sentiment.
C28_Witness ==
    /\ stage = "Done"
    /\ \E s \in WithoutPriceChanges :
          /\ Get(raw_data, s).news = NewsLimit
          /\ Get(raw_data, s).summary = "empty"
          /\ SentimentCalls(s) = {}
          /\ Get(Sentiment, s).news_count = 0
    /\ \E s \in KeySet(raw_data) \ WithoutPriceChanges : SentimentCallOk(s)

\* ----------------------------------------------------------------------- C29
\* The entries run_analysis appended to results['errors'] for an exception
\* that escaped one of its steps.
WorkflowErrors ==
    {i \in 1..Len(results.errors) : results.errors[i].text = "Error in analysis workflow"}
Saved(kind) ==
    \E i \in 1..Len(results.files_created) : results.files_created[i].kind = kind
\* The saving step was asked for and did not save both files.
SavingFailed ==
    /\ ~arg.no_report
    /\ ~arg.no_save
    /\ ~(Saved("report") /\ Saved("analysis_json"))
RunReturned == app_step \in {"returned", "exited"} /\ results # <<>>

\* C29: run_analysis always returns its results; success is True exactly when
\* no exception escaped the analysis, the report generation and the saving
\* (which is exactly when no workflow error was appended); the data-collection
\* errors of the run are copied into results['errors'] and have no influence
\* on success, so a run whose fetches all failed is a success; main exits
\* with 0 exactly when success is True.
C29_SuccessUnlessEscaped ==
    /\ app_step \in {"idle", "analysis", "report", "save", "visualize", "returned", "exited"}
    /\ RunReturned =>
          /\ stage = "Done"
          /\ ~arg.no_report => writer_step = "returned"
          /\ results.success <=> ~SavingFailed
          /\ results.success <=> WorkflowErrors = {}
          /\ Len(results.errors) = Len(error_messages) + Cardinality(WorkflowErrors)
          /\ \A i \in 1..Len(error_messages) : results.errors[i] = error_messages[i]
    /\ (app_step = "exited" /\ results # <<>>) =>
          result = <<IF results.success THEN 0 ELSE 1>>

\* C29 witness: the fetch of the one requested symbol failed, the report was
\* generated and saved, success is True with the collection error in
\* results['errors'], and main has exited with 0.
C29_Witness ==
    /\ app_step = "exited"
    /\ results # <<>>
    /\ symbols # <<>>
    /\ raw_data = <<>>
    /\ results.errors = <<[text |-> "Failed to collect data for", symbol |-> symbols[1]]>>
    /\ ~arg.no_report /\ ~arg.no_save
    /\ Saved("report")
    /\ results.success
    /\ result = <<0>>

\* ----------------------------------------------------------------------- C30
\* The node of the compiled graph a node of the drawn workflow stands for.
StageDrawn(label) ==
    CASE label = "START" -> "START"
      [] label = "Data Collection" -> "data_collection"
      [] label = "Technical Analysis" -> "technical_analysis"
      [] label = "Fundamental Analysis" -> "fundamental_analysis"
      [] label = "Market Sentiment" -> "market_sentiment"
      [] label = "Generate Insights" -> "generate_insights"
      [] label = "Create Visualizations" -> "create_visualizations"
      [] label = "Final Recommendations" -> "final_recommendations"
      [] label = "END" -> "Done"
DrawnWorkflow ==
    {<<StageDrawn(FinancialWorkflowEdges[i][1]), StageDrawn(FinancialWorkflowEdges[i][2])>> :
        i \in 1..Len(FinancialWorkflowEdges)}

\* C30: the workflow drawn by visualize_financial_workflow is the workflow
\* that is executed: its edges between START and END are the entry point and
\* the edges of the compiled graph, and every step from one stage to the next
\* follows a drawn edge.
C30_DiagramIsWorkflow ==
    [][ /\ stage' # stage => <<stage, stage'>> \in DrawnWorkflow
        /\ stage' = "Done" => DrawnWorkflow = Edges \cup {<<"START", EntryPoint>>}
      ]_vars

====
